---- MODULE Spec2Model ----
(***************************************************************************)
(* The board-game club's write path (pro/deliverables/write_funcs.py) over *)
(* its Redis database.  The database is one keyspace: a function from key  *)
(* to value.  A key "player:p1:number_of_wins" is the tuple                *)
(* <<"player", "p1", "number_of_wins">>, a three-move sequence "a,b,c" is   *)
(* the tuple <<"a", "b", "c">>, and a leaderboard entry "p1:3" is the tuple *)
(* <<"p1", 3>>.  Every write function is an operator from a database to    *)
(* the database it leaves and the exception it raises; the actions apply   *)
(* them to the variable redis.                                             *)
(***************************************************************************)
EXTENDS Integers, Sequences, FiniteSets, TLC

VARIABLES
    redis,      \* the Redis keyspace: key |-> string, counter, set or list
    volatile,   \* the keys that carry a time-to-live (EXPIRE)
    raised,     \* <<write event, exception>> of the last call ("none": it returned)
    clients     \* client |-> where the client is in its call, with the call's locals

vars == <<redis, volatile, raised, clients>>

----------------------------------------------------------------------------
(* Redis commands, as redis-py exposes them.                               *)

EXISTS(db, k) == k \in DOMAIN db

SET(db, k, v) == (k :> v) @@ db

MSET(db, kv) == kv @@ db

DEL(db, k) == [x \in DOMAIN db \ {k} |-> db[x]]

\* the value INCR leaves (and returns): a missing key counts as 0
INCR_value(db, k) == IF EXISTS(db, k) THEN db[k] + 1 ELSE 1

\* fault: the counter is stepped twice
INCR_twice(db, k) == SET(db, k, INCR_value(db, k) + 1)

INCR(db, k) == SET(db, k, INCR_value(db, k))

SMEMBERS(db, k) == IF EXISTS(db, k) THEN db[k] ELSE {}

SISMEMBER(db, k, x) == x \in SMEMBERS(db, k)

SCARD(db, k) == Cardinality(SMEMBERS(db, k))

\* the number of new members SADD reports
SADD_added(db, k, xs) == Cardinality(xs \ SMEMBERS(db, k))

SADD(db, k, xs) == IF xs = {} THEN db ELSE SET(db, k, SMEMBERS(db, k) \cup xs)

\* fault: the whole set is removed
SREM_all(db, k, x) == DEL(db, k)

\* Redis removes a set with its last member
SREM(db, k, x) ==
    IF SMEMBERS(db, k) \ {x} = {} THEN DEL(db, k) ELSE SET(db, k, SMEMBERS(db, k) \ {x})

\* fault: the operands of the difference are swapped
SDIFF_swapped(db, k1, k2) == SMEMBERS(db, k2) \ SMEMBERS(db, k1)

SDIFF(db, k1, k2) == SMEMBERS(db, k1) \ SMEMBERS(db, k2)

\* LRANGE key 0 -1
LRANGE(db, k) == IF EXISTS(db, k) THEN db[k] ELSE <<>>

\* a list key holds a non-empty list or does not exist
SETLIST(db, k, l) == IF l = <<>> THEN DEL(db, k) ELSE SET(db, k, l)

\* fault: the values are put at the head
RPUSH_head(db, k, vs) == SETLIST(db, k, vs \o LRANGE(db, k))

\* RPUSH key v1 v2 ... (at least one value)
RPUSH(db, k, vs) == SETLIST(db, k, LRANGE(db, k) \o vs)

LPUSH(db, k, v) == SETLIST(db, k, <<v>> \o LRANGE(db, k))

\* fault: nothing is trimmed
LTRIM_nothing(db, k, stop) == db

\* LTRIM key 0 stop: keep the elements at indexes 0..stop
LTRIM(db, k, stop) ==
    SETLIST(db, k, SubSeq(LRANGE(db, k), 1, IF Len(LRANGE(db, k)) < stop + 1 THEN Len(LRANGE(db, k)) ELSE stop + 1))

\* LREM key 0 v: remove every element equal to v
LREM(db, k, v) == SETLIST(db, k, SelectSeq(LRANGE(db, k), LAMBDA e : e # v))

\* index of the first element equal to v, 0 when there is none
IndexOf(l, v) ==
    IF \E i \in 1..Len(l) : l[i] = v
    THEN CHOOSE i \in 1..Len(l) : l[i] = v /\ \A j \in 1..(i - 1) : l[j] # v
    ELSE 0

\* LINSERT key BEFORE pivot v: before the first pivot; nothing without a pivot
LINSERT_BEFORE(db, k, pivot, v) ==
    IF IndexOf(LRANGE(db, k), pivot) = 0 THEN db
    ELSE SET(db, k, SubSeq(LRANGE(db, k), 1, IndexOf(LRANGE(db, k), pivot) - 1) \o <<v>>
                    \o SubSeq(LRANGE(db, k), IndexOf(LRANGE(db, k), pivot), Len(LRANGE(db, k))))

----------------------------------------------------------------------------
(* keys.py                                                                 *)

PLAYER_EMAIL(pid) == <<"player", pid, "email">>
PLAYER_WINS(pid) == <<"player", pid, "number_of_wins">>
PLAYER_LOSSES(pid) == <<"player", pid, "number_of_losses">>
PLAYER_DRAWS(pid) == <<"player", pid, "number_of_draws">>
PLAYER_GAMES_LIST(pid) == <<"player", pid, "games-list">>
\* fault: one games-set for all players
PLAYER_GAMES_SET_shared(pid) == <<"player", "all", "games-set">>

PLAYER_GAMES_SET(pid) == <<"player", pid, "games-set">>
\* fault: one opponents set for all players
PLAYER_OPPONENTS_shared(pid) == <<"player", "all", "opponents">>

PLAYER_OPPONENTS(pid) == <<"player", pid, "opponents">>
PLAYER_OPENING_COUNT(pid, eco) == <<"player", pid, "openings", eco, "count">>
PLAYER_MOST_FREQ_OPENING(pid) == <<"player", pid, "most_freq_opening">>
PLAYER_MOST_FREQ_OPENING_COUNT(pid) == <<"player", pid, "most_freq_opening", "count">>
PLAYER_FRIEND_GROUP(pid) == <<"player", pid, "friend_group">>
PLAYER_SCHEDULED_GAMES(pid) == <<"player", pid, "scheduled_games">>
PLAYER_SCHEDULED_GAME_OPPONENT(pid, gid) == <<"player", pid, "scheduled_games", gid, "opponent">>

GAME_WINNER(gid) == <<"game", gid, "winner">>
GAME_VICTORY_STATUS(gid) == <<"game", gid, "victory_status">>
GAME_TURNS(gid) == <<"game", gid, "number_of_turns">>
GAME_CHECKS(gid) == <<"game", gid, "number_of_checks">>
GAME_WHITE_PLAYER(gid) == <<"game", gid, "white_player_id">>
GAME_BLACK_PLAYER(gid) == <<"game", gid, "black_player_id">>
GAME_OPENING_ECO(gid) == <<"game", gid, "opening_eco">>
GAME_MOVES(gid) == <<"game", gid, "moves">>

GLOBAL_PLAYERS_EMAILS == <<"global", "players:emails">>
GLOBAL_PLAYERS_IDS == <<"global", "players:ids">>
GLOBAL_GAMES_IDS == <<"global", "games:ids">>
GLOBAL_FRIEND_GROUP(fid) == <<"global", "friend_group", fid>>
GLOBAL_SEQ_GAMES(seq) == <<"global", "seq", seq, "games">>
GLOBAL_SEQ_COUNT(seq) == <<"global", "seq", seq, "count">>
GLOBAL_OPENING_COUNT(eco) == <<"global", "openings", eco, "count">>

ANALYTICS_TOP_WINS == <<"analytics", "top_wins">>
ANALYTICS_TOP_LOSSES == <<"analytics", "top_losses">>
ANALYTICS_MOST_FREQ_OPENING == <<"analytics", "most_freq_opening">>
ANALYTICS_MOST_FREQ_OPENING_COUNT == <<"analytics", "most_freq_opening:count">>
ANALYTICS_SHORTEST_GAME == <<"analytics", "shortest_game">>
ANALYTICS_SHORTEST_GAME_TURNS == <<"analytics", "shortest_game:number_of_turns">>
ANALYTICS_LEAST_COMMON_SEQS == <<"analytics", "least_common_seqs">>
ANALYTICS_LEAST_COMMON_SEQ_COUNT == <<"analytics", "least_common_seq:count">>
ANALYTICS_MOST_COMMON_SEQS == <<"analytics", "most_common_seqs">>
ANALYTICS_MOST_COMMON_SEQ_COUNT == <<"analytics", "most_common_seq:count">>

\* the keys SCAN matches against "global:seq:*:count"
SCAN_SEQ_COUNT(db) ==
    {k \in DOMAIN db : Len(k) = 4 /\ k[1] = "global" /\ k[2] = "seq" /\ k[4] = "count"}

----------------------------------------------------------------------------
(* The exceptions a write event ends with.                                 *)

NoError == "none"
BoardGameClubNotUniqueError == "BoardGameClubNotUniqueError"
JSONDecodeError == "JSONDecodeError"
ResponseError == "ResponseError"
ConnectionError == "ConnectionError"

\* what a call leaves: the database, the exception, the keys it gave a time-to-live
Return(db) == [db |-> db, raised |-> NoError, expire |-> {}]
Raise(db, e) == [db |-> db, raised |-> e, expire |-> {}]

----------------------------------------------------------------------------
(* add_player                                                              *)

\* fault: the result of SADD is not looked at
assert_player_is_new_unchecked(db, pid) == Return(SADD(db, GLOBAL_PLAYERS_IDS, {pid}))

assert_player_is_new(db, pid) ==
    IF SADD_added(db, GLOBAL_PLAYERS_IDS, {pid}) = 0
    THEN Raise(db, BoardGameClubNotUniqueError)
    ELSE Return(SADD(db, GLOBAL_PLAYERS_IDS, {pid}))

add_player(db, player) ==
    LET new == assert_player_is_new(db, player.user_id)
        pid == player.user_id
        init == MSET(new.db,
                     (PLAYER_EMAIL(pid) :> player.email)
                     @@ (PLAYER_WINS(pid) :> 0)
                     @@ (PLAYER_LOSSES(pid) :> 0)
                     @@ (PLAYER_DRAWS(pid) :> 0)
                     @@ (PLAYER_MOST_FREQ_OPENING_COUNT(pid) :> 0))
    IN  IF new.raised # NoError THEN new
        ELSE Return(SADD(init, GLOBAL_PLAYERS_EMAILS, {player.email}))

----------------------------------------------------------------------------
(* add_schedule                                                            *)

\* ltrim(list, 0, 199): a player's scheduled_games list keeps 200 ids
ScheduledGamesStop == 199

\* fault: the result of SADD is not looked at
assert_game_is_new_unchecked(db, gid) == Return(SADD(db, GLOBAL_GAMES_IDS, {gid}))

assert_game_is_new(db, gid) ==
    IF SADD_added(db, GLOBAL_GAMES_IDS, {gid}) = 0
    THEN Raise(db, BoardGameClubNotUniqueError)
    ELSE Return(SADD(db, GLOBAL_GAMES_IDS, {gid}))

add_schedule(db, schedule) ==
    LET new == assert_game_is_new(db, schedule.game_id)
        player_1_key == PLAYER_SCHEDULED_GAME_OPPONENT(schedule.player_1, schedule.game_id)
        player_2_key == PLAYER_SCHEDULED_GAME_OPPONENT(schedule.player_2, schedule.game_id)
        \* a dict literal: the later key wins when both keys are the same
        db1 == MSET(new.db, (player_2_key :> schedule.player_1) @@ (player_1_key :> schedule.player_2))
        p1_list == PLAYER_SCHEDULED_GAMES(schedule.player_1)
        p2_list == PLAYER_SCHEDULED_GAMES(schedule.player_2)
        db2 == LTRIM(LPUSH(db1, p1_list, schedule.game_id), p1_list, ScheduledGamesStop)
        db3 == LTRIM(LPUSH(db2, p2_list, schedule.game_id), p2_list, ScheduledGamesStop)
    IN  IF new.raised # NoError THEN new
        ELSE [db |-> db3, raised |-> NoError, expire |-> {player_1_key, player_2_key}]

----------------------------------------------------------------------------
(* friend groups                                                           *)

\* the friend-group ids uuid4 is drawn from
FIDS == {"f1", "f2", "f3"}

\* the ids __new_fid can return: those that are not a friend-group key
new_fid(db) == {fid \in FIDS : ~EXISTS(db, GLOBAL_FRIEND_GROUP(fid))}

\* fault: the first player's group survives whatever the sizes
update_friend_groups_first_survives(db, pid1, pid2, fid) ==
    LET has1 == EXISTS(db, PLAYER_FRIEND_GROUP(pid1))
        has2 == EXISTS(db, PLAYER_FRIEND_GROUP(pid2))
    IN  IF ~has1 /\ ~has2 THEN
            MSET(SADD(db, GLOBAL_FRIEND_GROUP(fid), {pid1, pid2}),
                 (PLAYER_FRIEND_GROUP(pid1) :> fid) @@ (PLAYER_FRIEND_GROUP(pid2) :> fid))
        ELSE IF ~has1 \/ ~has2 THEN
            LET gid == IF has1 THEN db[PLAYER_FRIEND_GROUP(pid1)] ELSE db[PLAYER_FRIEND_GROUP(pid2)]
                newcomer == IF has1 THEN pid2 ELSE pid1
            IN  SET(SADD(db, GLOBAL_FRIEND_GROUP(gid), {newcomer}), PLAYER_FRIEND_GROUP(newcomer), gid)
        ELSE IF db[PLAYER_FRIEND_GROUP(pid1)] = db[PLAYER_FRIEND_GROUP(pid2)] THEN db
        ELSE
            LET big == db[PLAYER_FRIEND_GROUP(pid1)]
                small == db[PLAYER_FRIEND_GROUP(pid2)]
                members == SMEMBERS(db, GLOBAL_FRIEND_GROUP(small))
            IN  DEL(MSET(SADD(db, GLOBAL_FRIEND_GROUP(big), members),
                         [k \in {PLAYER_FRIEND_GROUP(m) : m \in members} |-> big]),
                    GLOBAL_FRIEND_GROUP(small))

\* fault: a newcomer is added to the group but not pointed at it
update_friend_groups_no_pointer(db, pid1, pid2, fid) ==
    LET has1 == EXISTS(db, PLAYER_FRIEND_GROUP(pid1))
        has2 == EXISTS(db, PLAYER_FRIEND_GROUP(pid2))
    IN  IF ~has1 /\ ~has2 THEN
            MSET(SADD(db, GLOBAL_FRIEND_GROUP(fid), {pid1, pid2}),
                 (PLAYER_FRIEND_GROUP(pid1) :> fid) @@ (PLAYER_FRIEND_GROUP(pid2) :> fid))
        ELSE IF has1 /\ ~has2 THEN SADD(db, GLOBAL_FRIEND_GROUP(db[PLAYER_FRIEND_GROUP(pid1)]), {pid2})
        ELSE IF has2 /\ ~has1 THEN SADD(db, GLOBAL_FRIEND_GROUP(db[PLAYER_FRIEND_GROUP(pid2)]), {pid1})
        ELSE db

\* fid: the id __new_fid returns when it is called
update_friend_groups(db, pid1, pid2, fid) ==
    LET has1 == EXISTS(db, PLAYER_FRIEND_GROUP(pid1))
        has2 == EXISTS(db, PLAYER_FRIEND_GROUP(pid2))
    IN  IF ~has1 /\ ~has2 THEN
            \* Case 1: neither in a group -> create new
            MSET(SADD(db, GLOBAL_FRIEND_GROUP(fid), {pid1, pid2}),
                 (PLAYER_FRIEND_GROUP(pid1) :> fid) @@ (PLAYER_FRIEND_GROUP(pid2) :> fid))
        ELSE IF ~has1 \/ ~has2 THEN
            \* Case 2: one of them in a group -> add the other one to it
            LET gid == IF has1 THEN db[PLAYER_FRIEND_GROUP(pid1)] ELSE db[PLAYER_FRIEND_GROUP(pid2)]
                newcomer == IF has1 THEN pid2 ELSE pid1
            IN  SET(SADD(db, GLOBAL_FRIEND_GROUP(gid), {newcomer}), PLAYER_FRIEND_GROUP(newcomer), gid)
        ELSE IF db[PLAYER_FRIEND_GROUP(pid1)] = db[PLAYER_FRIEND_GROUP(pid2)] THEN
            \* Case 3: both already in the same group -> nothing to do
            db
        ELSE
            \* Case 4: different groups -> merge smaller into larger
            LET fid1 == db[PLAYER_FRIEND_GROUP(pid1)]
                fid2 == db[PLAYER_FRIEND_GROUP(pid2)]
                size1 == SCARD(db, GLOBAL_FRIEND_GROUP(fid1))
                size2 == SCARD(db, GLOBAL_FRIEND_GROUP(fid2))
                big == IF size1 >= size2 THEN fid1 ELSE fid2
                small == IF size1 >= size2 THEN fid2 ELSE fid1
                members == SMEMBERS(db, GLOBAL_FRIEND_GROUP(small))
            IN  IF members = {} THEN db
                ELSE DEL(MSET(SADD(db, GLOBAL_FRIEND_GROUP(big), members),
                              [k \in {PLAYER_FRIEND_GROUP(m) : m \in members} |-> big]),
                         GLOBAL_FRIEND_GROUP(small))

----------------------------------------------------------------------------
(* graph_funcs.py: the friends of friends of a player, as a set (the code   *)
(* returns list(set), in no particular order)                              *)

get_friends_of_friends(db, pid) ==
    IF ~EXISTS(db, PLAYER_FRIEND_GROUP(pid)) THEN {}
    ELSE SDIFF(db, GLOBAL_FRIEND_GROUP(db[PLAYER_FRIEND_GROUP(pid)]), PLAYER_OPPONENTS(pid)) \ {pid}

----------------------------------------------------------------------------
(* the capped leaderboards                                                 *)

\* fault: trims one entry too many
TopListStop_short == 9 - 1

\* ltrim(list_key, 0, 9): a leaderboard keeps 10 entries
TopListStop == 9

\* fault: the comparison is turned around
insert_before_reversed(top, new_score) ==
    IF \E i \in 1..Len(top) : new_score <= top[i][2]
    THEN <<top[CHOOSE i \in 1..Len(top) :
                 new_score <= top[i][2] /\ \A j \in 1..(i - 1) : ~(new_score <= top[j][2])]>>
    ELSE <<>>

\* the first item whose score new_score reaches; <<>> when there is none
insert_before(top, new_score) ==
    IF \E i \in 1..Len(top) : new_score >= top[i][2]
    THEN <<top[CHOOSE i \in 1..Len(top) :
                 new_score >= top[i][2] /\ \A j \in 1..(i - 1) : ~(new_score >= top[j][2])]>>
    ELSE <<>>

update_top_list(db, list_key, pid, new_score) ==
    LET old_tuple == <<pid, new_score - 1>>
        new_tuple == <<pid, new_score>>
        db1 == LREM(db, list_key, old_tuple)
        top == LRANGE(db1, list_key)
        before == insert_before(top, new_score)
        db2 == IF before = <<>> THEN RPUSH(db1, list_key, <<new_tuple>>)
               ELSE LINSERT_BEFORE(db1, list_key, before[1], new_tuple)
    IN  LTRIM(db2, list_key, TopListStop)

----------------------------------------------------------------------------
(* per-player keys of a game record                                        *)

update_player_keys(db, game_record, player_color, player_id, opponent_color, opponent_id) ==
    LET db1 == IF game_record.winner = player_color THEN
                   update_top_list(INCR(db, PLAYER_WINS(player_id)), ANALYTICS_TOP_WINS,
                                   player_id, INCR_value(db, PLAYER_WINS(player_id)))
               ELSE IF game_record.winner = opponent_color THEN
                   update_top_list(INCR(db, PLAYER_LOSSES(player_id)), ANALYTICS_TOP_LOSSES,
                                   player_id, INCR_value(db, PLAYER_LOSSES(player_id)))
               ELSE INCR(db, PLAYER_DRAWS(player_id))
        db2 == RPUSH(db1, PLAYER_GAMES_LIST(player_id), <<game_record.game_id>>)
        db3 == SADD(db2, PLAYER_GAMES_SET(player_id), {game_record.game_id})
        db4 == SADD(db3, PLAYER_OPPONENTS(player_id), {opponent_id})
        eco_key == PLAYER_OPENING_COUNT(player_id, game_record.opening_eco)
        this_game_eco_count == INCR_value(db4, eco_key)
        db5 == INCR(db4, eco_key)
        count_key == PLAYER_MOST_FREQ_OPENING_COUNT(player_id)
    IN  IF ~EXISTS(db5, count_key) \/ this_game_eco_count > db5[count_key]
        THEN MSET(db5, (PLAYER_MOST_FREQ_OPENING(player_id) :> game_record.opening_eco)
                       @@ (count_key :> this_game_eco_count))
        ELSE db5

----------------------------------------------------------------------------
(* the moveset of a game record                                            *)

\* A moveset is [json, moves]: json says whether the text, with ' replaced by ",
\* is a JSON list (a Python list always is), moves is the list it denotes.
parse_moveset(moveset) ==
    IF moveset.json THEN [raised |-> NoError, moves |-> moveset.moves]
    ELSE [raised |-> JSONDecodeError, moves |-> <<>>]

\* the moves written with a "+"
CheckMoves == {"Qh5+", "Bb5+"}

RECURSIVE find_number_of_checks(_)
find_number_of_checks(moves) ==
    IF moves = <<>> THEN 0
    ELSE (IF Head(moves) \in CheckMoves THEN 1 ELSE 0) + find_number_of_checks(Tail(moves))

\* fault: the last window is left out
find_all_three_move_sequences_short(moves) ==
    [i \in 1..(IF Len(moves) < 3 THEN 0 ELSE Len(moves) - 3) |-> <<moves[i], moves[i + 1], moves[i + 2]>>]

\* [",".join(moves[i - 2 : i + 1]) for i in range(2, len(moves))]
find_all_three_move_sequences(moves) ==
    [i \in 1..(IF Len(moves) < 2 THEN 0 ELSE Len(moves) - 2) |-> <<moves[i], moves[i + 1], moves[i + 2]>>]

\* for seq in three_move_sequences: sadd(GLOBAL_SEQ_GAMES(seq), game_id)
RECURSIVE add_seq_games(_, _, _)
add_seq_games(db, three_move_sequences, gid) ==
    IF three_move_sequences = <<>> THEN db
    ELSE add_seq_games(SADD(db, GLOBAL_SEQ_GAMES(Head(three_move_sequences)), {gid}),
                       Tail(three_move_sequences), gid)

update_game_keys(db, game_record, moves) ==
    LET gid == game_record.game_id
        db1 == MSET(db,
                    (GAME_WINNER(gid) :> game_record.winner)
                    @@ (GAME_VICTORY_STATUS(gid) :> game_record.victory_status)
                    @@ (GAME_TURNS(gid) :> game_record.number_of_turns)
                    @@ (GAME_CHECKS(gid) :> find_number_of_checks(moves))
                    @@ (GAME_WHITE_PLAYER(gid) :> game_record.white_player_id)
                    @@ (GAME_BLACK_PLAYER(gid) :> game_record.black_player_id)
                    @@ (GAME_OPENING_ECO(gid) :> game_record.opening_eco))
    IN  \* RPUSH with no value is a wrong number of arguments: redis-py raises
        IF moves = <<>> THEN Raise(db1, ResponseError)
        ELSE Return(RPUSH(db1, GAME_MOVES(gid), moves))

----------------------------------------------------------------------------
(* least / most common three-move sequences                                *)

\* fault: a tie with the current maximum is dropped
update_most_common_seqs_no_tie(db, three_move_sequence, new_count) ==
    IF ~EXISTS(db, ANALYTICS_MOST_COMMON_SEQ_COUNT) \/ new_count > db[ANALYTICS_MOST_COMMON_SEQ_COUNT]
    THEN SET(SADD(DEL(db, ANALYTICS_MOST_COMMON_SEQS), ANALYTICS_MOST_COMMON_SEQS, {three_move_sequence}),
             ANALYTICS_MOST_COMMON_SEQ_COUNT, new_count)
    ELSE db

update_most_common_seqs(db, three_move_sequence, new_count) ==
    IF ~EXISTS(db, ANALYTICS_MOST_COMMON_SEQ_COUNT) \/ new_count > db[ANALYTICS_MOST_COMMON_SEQ_COUNT]
    THEN \* new max -> replace the whole Set
         SET(SADD(DEL(db, ANALYTICS_MOST_COMMON_SEQS), ANALYTICS_MOST_COMMON_SEQS, {three_move_sequence}),
             ANALYTICS_MOST_COMMON_SEQ_COUNT, new_count)
    ELSE IF new_count = db[ANALYTICS_MOST_COMMON_SEQ_COUNT]
    THEN \* tie with the current max -> add it to the Set
         SADD(db, ANALYTICS_MOST_COMMON_SEQS, {three_move_sequence})
    ELSE db

\* the scan loop: st = [min_count, min_seqs], min_count 0 standing for None
RECURSIVE scan_least(_, _, _)
scan_least(db, scan_keys, st) ==
    IF scan_keys = {} THEN st
    ELSE LET key == CHOOSE k \in scan_keys : TRUE
             cnt == db[key]
             seq == key[3]
         IN  scan_least(db, scan_keys \ {key},
                 IF cnt # 0 /\ (st.min_count = 0 \/ cnt < st.min_count)
                 THEN [min_count |-> cnt, min_seqs |-> {seq}]
                 ELSE IF st.min_count # 0 /\ cnt = st.min_count
                 THEN [min_count |-> st.min_count, min_seqs |-> st.min_seqs \cup {seq}]
                 ELSE st)

\* fault: the scan finds nothing
find_least_common_seqs_nothing(db) == [min_count |-> 0, min_seqs |-> {}]

find_least_common_seqs(db) ==
    scan_least(db, SCAN_SEQ_COUNT(db), [min_count |-> 0, min_seqs |-> {}])

update_least_common_seqs(db, three_move_sequence, new_count) ==
    IF ~EXISTS(db, ANALYTICS_LEAST_COMMON_SEQ_COUNT) \/ new_count < db[ANALYTICS_LEAST_COMMON_SEQ_COUNT]
    THEN \* fresh DB OR new global minimum
         SET(SADD(DEL(db, ANALYTICS_LEAST_COMMON_SEQS), ANALYTICS_LEAST_COMMON_SEQS, {three_move_sequence}),
             ANALYTICS_LEAST_COMMON_SEQ_COUNT, new_count)
    ELSE IF new_count = db[ANALYTICS_LEAST_COMMON_SEQ_COUNT]
    THEN \* exact tie with current minimum
         SADD(db, ANALYTICS_LEAST_COMMON_SEQS, {three_move_sequence})
    ELSE IF new_count > db[ANALYTICS_LEAST_COMMON_SEQ_COUNT]
            /\ SISMEMBER(db, ANALYTICS_LEAST_COMMON_SEQS, three_move_sequence)
    THEN \* sequence lost "least" status
         LET db1 == SREM(db, ANALYTICS_LEAST_COMMON_SEQS, three_move_sequence)
             remaining == SCARD(db1, ANALYTICS_LEAST_COMMON_SEQS)
             found == find_least_common_seqs(db1)
         IN  IF remaining = 0 /\ found.min_seqs # {}
             THEN SET(SADD(DEL(db1, ANALYTICS_LEAST_COMMON_SEQS), ANALYTICS_LEAST_COMMON_SEQS, found.min_seqs),
                      ANALYTICS_LEAST_COMMON_SEQ_COUNT, found.min_count)
             ELSE db1
    ELSE db

RECURSIVE update_common_seqs(_, _)
update_common_seqs(db, three_move_sequences) ==
    IF three_move_sequences = <<>> THEN db
    ELSE LET three_move_sequence == Head(three_move_sequences)
             new_count == INCR_value(db, GLOBAL_SEQ_COUNT(three_move_sequence))
             db1 == INCR(db, GLOBAL_SEQ_COUNT(three_move_sequence))
             db2 == update_most_common_seqs(db1, three_move_sequence, new_count)
             db3 == update_least_common_seqs(db2, three_move_sequence, new_count)
         IN  update_common_seqs(db3, Tail(three_move_sequences))

----------------------------------------------------------------------------
(* most frequent opening, shortest game                                    *)

\* fault: a tie replaces the leader
update_most_freq_opening_on_tie(db, game_record, this_game_eco_count) ==
    IF ~EXISTS(db, ANALYTICS_MOST_FREQ_OPENING_COUNT)
       \/ this_game_eco_count >= db[ANALYTICS_MOST_FREQ_OPENING_COUNT]
    THEN MSET(db, (ANALYTICS_MOST_FREQ_OPENING :> game_record.opening_eco)
                  @@ (ANALYTICS_MOST_FREQ_OPENING_COUNT :> this_game_eco_count))
    ELSE db

update_most_freq_opening(db, game_record, this_game_eco_count) ==
    IF ~EXISTS(db, ANALYTICS_MOST_FREQ_OPENING_COUNT)
       \/ this_game_eco_count > db[ANALYTICS_MOST_FREQ_OPENING_COUNT]
    THEN MSET(db, (ANALYTICS_MOST_FREQ_OPENING :> game_record.opening_eco)
                  @@ (ANALYTICS_MOST_FREQ_OPENING_COUNT :> this_game_eco_count))
    ELSE db

update_shortest_game(db, game_record) ==
    IF ~EXISTS(db, ANALYTICS_SHORTEST_GAME_TURNS)
       \/ game_record.number_of_turns < db[ANALYTICS_SHORTEST_GAME_TURNS]
    THEN MSET(db, (ANALYTICS_SHORTEST_GAME :> game_record.game_id)
                  @@ (ANALYTICS_SHORTEST_GAME_TURNS :> game_record.number_of_turns))
    ELSE db

----------------------------------------------------------------------------
(* add_game_record                                                         *)

\* fid: the id __new_fid returns if the friend-group update asks for one
add_game_record(db, game_record, fid) ==
    LET new == assert_game_is_new(db, game_record.game_id)
        parsed == parse_moveset(game_record.moveset)
        moves == parsed.moves
        three_move_sequences == find_all_three_move_sequences(moves)
        \* add all 3-seq to the global set
        db1 == add_seq_games(new.db, three_move_sequences, game_record.game_id)
        db2 == update_player_keys(db1, game_record, "white", game_record.white_player_id,
                                  "black", game_record.black_player_id)
        db3 == update_player_keys(db2, game_record, "black", game_record.black_player_id,
                                  "white", game_record.white_player_id)
        \* game-specific keys
        game == update_game_keys(db3, game_record, moves)
        \* global keys
        db4 == update_common_seqs(game.db, three_move_sequences)
        this_game_eco_count == INCR_value(db4, GLOBAL_OPENING_COUNT(game_record.opening_eco))
        db5 == INCR(db4, GLOBAL_OPENING_COUNT(game_record.opening_eco))
        \* analytics keys
        db6 == update_shortest_game(db5, game_record)
        db7 == update_most_freq_opening(db6, game_record, this_game_eco_count)
        db8 == update_friend_groups(db7, game_record.white_player_id, game_record.black_player_id, fid)
    IN  IF new.raised # NoError THEN new
        ELSE IF parsed.raised # NoError THEN Raise(new.db, parsed.raised)
        ELSE IF game.raised # NoError THEN game
        ELSE Return(db8)

\* The points of add_game_record between two of its steps: redis-py raises
\* ConnectionError from the next command when the server has become
\* unreachable, and the commands already sent stay applied.
StorePoints ==
    {"reserved", "seq_games", "white_keys", "black_keys", "game_keys", "common_seqs",
     "opening_count", "shortest_game", "most_freq_opening"}

\* add_game_record when the store becomes unreachable at point: what the call
\* leaves; the call as a whole when it ends before it gets to the point
add_game_record_store_fails(db, game_record, point) ==
    LET new == assert_game_is_new(db, game_record.game_id)
        parsed == parse_moveset(game_record.moveset)
        moves == parsed.moves
        three_move_sequences == find_all_three_move_sequences(moves)
        db1 == add_seq_games(new.db, three_move_sequences, game_record.game_id)
        db2 == update_player_keys(db1, game_record, "white", game_record.white_player_id,
                                  "black", game_record.black_player_id)
        db3 == update_player_keys(db2, game_record, "black", game_record.black_player_id,
                                  "white", game_record.white_player_id)
        game == update_game_keys(db3, game_record, moves)
        db4 == update_common_seqs(game.db, three_move_sequences)
        db5 == INCR(db4, GLOBAL_OPENING_COUNT(game_record.opening_eco))
        db6 == update_shortest_game(db5, game_record)
        db7 == update_most_freq_opening(db6, game_record,
                                        INCR_value(db4, GLOBAL_OPENING_COUNT(game_record.opening_eco)))
    IN  IF new.raised # NoError THEN new
        ELSE IF point = "reserved" THEN Raise(new.db, ConnectionError)
        ELSE IF parsed.raised # NoError THEN Raise(new.db, parsed.raised)
        ELSE IF point = "seq_games" THEN Raise(db1, ConnectionError)
        ELSE IF point = "white_keys" THEN Raise(db2, ConnectionError)
        ELSE IF point = "black_keys" THEN Raise(db3, ConnectionError)
        ELSE IF game.raised # NoError THEN game
        ELSE IF point = "game_keys" THEN Raise(game.db, ConnectionError)
        ELSE IF point = "common_seqs" THEN Raise(db4, ConnectionError)
        ELSE IF point = "opening_count" THEN Raise(db5, ConnectionError)
        ELSE IF point = "shortest_game" THEN Raise(db6, ConnectionError)
        ELSE Raise(db7, ConnectionError)

----------------------------------------------------------------------------
(* The write events as actions on the database.                            *)

Commit(event, out) ==
    /\ redis' = out.db
    /\ volatile' = (volatile \cup out.expire) \cap DOMAIN out.db
    /\ raised' = <<event, out.raised>>
    /\ UNCHANGED clients

AddPlayer(player) == Commit("add_player", add_player(redis, player))

AddSchedule(schedule) == Commit("add_schedule", add_schedule(redis, schedule))

\* no friend-group id is drawn by a call that does not reach Case 1
NotDrawn == "-"

\* __new_fid is called only in Case 1 of __update_friend_groups: the record is
\* accepted, its moves are stored and neither player has a friend group
draws_fid(db, game_record) ==
    /\ ~SISMEMBER(db, GLOBAL_GAMES_IDS, game_record.game_id)
    /\ game_record.moveset.json
    /\ game_record.moveset.moves # <<>>
    /\ ~EXISTS(db, PLAYER_FRIEND_GROUP(game_record.white_player_id))
    /\ ~EXISTS(db, PLAYER_FRIEND_GROUP(game_record.black_player_id))

AddGameRecord(game_record) ==
    \E fid \in (IF draws_fid(redis, game_record) THEN new_fid(redis) ELSE {NotDrawn}) : Commit("add_game_record", add_game_record(redis, game_record, fid))

\* add_game_record while the store becomes unreachable at one of its points
AddGameRecordStoreFails(game_record) ==
    \E point \in StorePoints :
        Commit("add_game_record", add_game_record_store_fails(redis, game_record, point))

\* Redis drops a key whose time-to-live has run out
KeyExpires(k) ==
    /\ k \in volatile
    /\ redis' = DEL(redis, k)
    /\ volatile' = volatile \ {k}
    /\ UNCHANGED <<raised, clients>>

----------------------------------------------------------------------------
(* Clients.  A write event is a sequence of Redis commands sent by one      *)
(* client.  Redis runs one command at a time, and the commands of one       *)
(* pipeline.execute() as one MULTI/EXEC block; between two of them the      *)
(* commands of another client can run.  A client is at a position (pc) of   *)
(* its call, with the local variables of the call (l); what Python computes *)
(* between two commands belongs to the step of the command before it.       *)

Clients == {"c1", "c2"}

\* GET key: <<>> for None
GET(db, k) == IF EXISTS(db, k) THEN <<db[k]>> ELSE <<>>

NoLocals ==
    [seqs |-> <<>>, i |-> 0, color |-> "-", list_key |-> <<>>, score |-> 0, top |-> <<>>,
     count |-> 0, read |-> <<>>, fid1 |-> <<>>, fid2 |-> <<>>, gid |-> NotDrawn,
     size1 |-> 0, size2 |-> 0, members |-> {}, scan |-> {}, min_count |-> 0, min_seqs |-> {}]

Idle == [pc |-> "idle", event |-> "none", rec |-> <<>>, raised |-> NoError, l |-> NoLocals]

\* the client has called event(rec) and has sent no command yet
Called(event, rec) ==
    [pc |-> "assert_game_is_new", event |-> event, rec |-> rec, raised |-> NoError, l |-> NoLocals]

\* what one step leaves: the database, the client, the keys given a time-to-live
Step(db, cl) == [db |-> db, cl |-> cl, expire |-> {}]

Goto(cl, pc) == [cl EXCEPT !.pc = pc]

\* the call returns, or raises e: its local variables are gone
Returns(cl) == [cl EXCEPT !.pc = "done", !.l = NoLocals]
Raises(cl, e) == [cl EXCEPT !.pc = "done", !.raised = e, !.l = NoLocals]

\* __assert_game_is_new, then for a game record __parse_moveset and
\* __find_all_three_move_sequences (lines 208-211)
assert_game_is_new_step(db, cl) ==
    LET new == assert_game_is_new(db, cl.rec.game_id)
        parsed == parse_moveset(cl.rec.moveset)
        seqs == find_all_three_move_sequences(parsed.moves)
    IN  IF new.raised # NoError THEN Step(db, Raises(cl, new.raised))
        ELSE IF cl.event = "add_schedule" THEN Step(new.db, Goto(cl, "schedule_mset"))
        ELSE IF parsed.raised # NoError THEN Step(new.db, Raises(cl, parsed.raised))
        ELSE IF seqs # <<>>
        THEN Step(new.db, [cl EXCEPT !.pc = "seq_games", !.l.seqs = seqs, !.l.i = 1])
        ELSE Step(new.db, [cl EXCEPT !.pc = "player_incr", !.l.color = "white"])

\* add_schedule after the reservation, command by command (lines 62-81)
add_schedule_step(db, cl) ==
    LET schedule == cl.rec
        player_1_key == PLAYER_SCHEDULED_GAME_OPPONENT(schedule.player_1, schedule.game_id)
        player_2_key == PLAYER_SCHEDULED_GAME_OPPONENT(schedule.player_2, schedule.game_id)
        p1_list == PLAYER_SCHEDULED_GAMES(schedule.player_1)
        p2_list == PLAYER_SCHEDULED_GAMES(schedule.player_2)
    IN  CASE cl.pc = "schedule_mset" ->
                 Step(MSET(db, (player_2_key :> schedule.player_1) @@ (player_1_key :> schedule.player_2)),
                      Goto(cl, "schedule_expire_1"))
          [] cl.pc = "schedule_expire_1" ->
                 [db |-> db, cl |-> Goto(cl, "schedule_expire_2"), expire |-> {player_1_key}]
          [] cl.pc = "schedule_expire_2" ->
                 [db |-> db, cl |-> Goto(cl, "schedule_lpush_1"), expire |-> {player_2_key}]
          [] cl.pc = "schedule_lpush_1" ->
                 Step(LPUSH(db, p1_list, schedule.game_id), Goto(cl, "schedule_ltrim_1"))
          [] cl.pc = "schedule_ltrim_1" ->
                 Step(LTRIM(db, p1_list, ScheduledGamesStop), Goto(cl, "schedule_lpush_2"))
          [] cl.pc = "schedule_lpush_2" ->
                 Step(LPUSH(db, p2_list, schedule.game_id), Goto(cl, "schedule_ltrim_2"))
          [] cl.pc = "schedule_ltrim_2" ->
                 Step(LTRIM(db, p2_list, ScheduledGamesStop), Returns(cl))

\* the loop of add_game_record over the sequences (lines 214-215)
seq_games_step(db, cl) ==
    LET db1 == SADD(db, GLOBAL_SEQ_GAMES(cl.l.seqs[cl.l.i]), {cl.rec.game_id})
    IN  IF cl.l.i < Len(cl.l.seqs) THEN Step(db1, [cl EXCEPT !.l.i = cl.l.i + 1])
        ELSE Step(db1, [cl EXCEPT !.pc = "player_incr", !.l.color = "white", !.l.i = 0])

\* __update_top_list in its two transactions: lrem and lrange (lines 254-256),
\* then, with the list as it was read, the insert and the trim (lines 259-274)
update_top_list_step(db, cl) ==
    LET pid == IF cl.l.color = "white" THEN cl.rec.white_player_id ELSE cl.rec.black_player_id
        new_score == cl.l.score
        old_tuple == <<pid, new_score - 1>>
        new_tuple == <<pid, new_score>>
        db1 == LREM(db, cl.l.list_key, old_tuple)
        before == insert_before(cl.l.top, new_score)
        db2 == IF before = <<>> THEN RPUSH(db, cl.l.list_key, <<new_tuple>>)
               ELSE LINSERT_BEFORE(db, cl.l.list_key, before[1], new_tuple)
    IN  CASE cl.pc = "top_list_read" ->
                 Step(db1, [cl EXCEPT !.pc = "top_list_insert", !.l.top = LRANGE(db1, cl.l.list_key)])
          [] cl.pc = "top_list_insert" ->
                 Step(LTRIM(db2, cl.l.list_key, TopListStop),
                      [cl EXCEPT !.pc = "games_list", !.l.top = <<>>, !.l.score = 0, !.l.list_key = <<>>])

\* __update_player_keys for the player of cl.l.color, command by command
update_player_keys_step(db, cl) ==
    LET game_record == cl.rec
        white == cl.l.color = "white"
        player_color == cl.l.color
        opponent_color == IF white THEN "black" ELSE "white"
        player_id == IF white THEN game_record.white_player_id ELSE game_record.black_player_id
        opponent_id == IF white THEN game_record.black_player_id ELSE game_record.white_player_id
        eco_key == PLAYER_OPENING_COUNT(player_id, game_record.opening_eco)
        count_key == PLAYER_MOST_FREQ_OPENING_COUNT(player_id)
        \* the call returns: the black player's keys follow the white player's
        after == IF white THEN [cl EXCEPT !.pc = "player_incr", !.l.color = "black", !.l.count = 0]
                 ELSE [cl EXCEPT !.pc = "game_keys", !.l.color = "-", !.l.count = 0]
    IN  CASE cl.pc = "player_incr" ->
                 IF game_record.winner = player_color THEN
                     Step(INCR(db, PLAYER_WINS(player_id)),
                          [cl EXCEPT !.pc = "top_list_read", !.l.list_key = ANALYTICS_TOP_WINS,
                                     !.l.score = INCR_value(db, PLAYER_WINS(player_id))])
                 ELSE IF game_record.winner = opponent_color THEN
                     Step(INCR(db, PLAYER_LOSSES(player_id)),
                          [cl EXCEPT !.pc = "top_list_read", !.l.list_key = ANALYTICS_TOP_LOSSES,
                                     !.l.score = INCR_value(db, PLAYER_LOSSES(player_id))])
                 ELSE Step(INCR(db, PLAYER_DRAWS(player_id)), Goto(cl, "games_list"))
          [] cl.pc = "games_list" ->
                 Step(RPUSH(db, PLAYER_GAMES_LIST(player_id), <<game_record.game_id>>), Goto(cl, "games_set"))
          [] cl.pc = "games_set" ->
                 Step(SADD(db, PLAYER_GAMES_SET(player_id), {game_record.game_id}), Goto(cl, "opponents"))
          [] cl.pc = "opponents" ->
                 Step(SADD(db, PLAYER_OPPONENTS(player_id), {opponent_id}), Goto(cl, "opening_incr"))
          [] cl.pc = "opening_incr" ->
                 Step(INCR(db, eco_key), [cl EXCEPT !.pc = "most_used_get", !.l.count = INCR_value(db, eco_key)])
          [] cl.pc = "most_used_get" ->
                 IF GET(db, count_key) = <<>> \/ cl.l.count > GET(db, count_key)[1]
                 THEN Step(db, Goto(cl, "most_used_mset"))
                 ELSE Step(db, after)
          [] cl.pc = "most_used_mset" ->
                 Step(MSET(db, (PLAYER_MOST_FREQ_OPENING(player_id) :> game_record.opening_eco)
                               @@ (count_key :> cl.l.count)),
                      after)

\* where add_game_record goes on after a sequence of __update_common_seqs
next_seq(cl) ==
    IF cl.l.i < Len(cl.l.seqs)
    THEN [cl EXCEPT !.pc = "seq_incr", !.l.i = cl.l.i + 1, !.l.count = 0]
    ELSE [cl EXCEPT !.pc = "opening_count", !.l.i = 0, !.l.count = 0]

\* __update_game_keys: the mset, then the rpush of the moves
update_game_keys_step(db, cl) ==
    LET game_record == cl.rec
        gid == game_record.game_id
        moves == parse_moveset(game_record.moveset).moves
    IN  CASE cl.pc = "game_keys" ->
                 Step(MSET(db,
                           (GAME_WINNER(gid) :> game_record.winner)
                           @@ (GAME_VICTORY_STATUS(gid) :> game_record.victory_status)
                           @@ (GAME_TURNS(gid) :> game_record.number_of_turns)
                           @@ (GAME_CHECKS(gid) :> find_number_of_checks(moves))
                           @@ (GAME_WHITE_PLAYER(gid) :> game_record.white_player_id)
                           @@ (GAME_BLACK_PLAYER(gid) :> game_record.black_player_id)
                           @@ (GAME_OPENING_ECO(gid) :> game_record.opening_eco)),
                      Goto(cl, "game_moves"))
          [] cl.pc = "game_moves" ->
                 IF moves = <<>> THEN Step(db, Raises(cl, ResponseError))
                 ELSE Step(RPUSH(db, GAME_MOVES(gid), moves),
                           IF cl.l.seqs # <<>> THEN [cl EXCEPT !.pc = "seq_incr", !.l.i = 1]
                           ELSE Goto(cl, "opening_count"))

\* fault: a counter that ties the minimum found so far is passed over
scan_get_no_tie(db, cl, key) ==
    IF db[key] # 0 /\ (cl.l.min_count = 0 \/ db[key] < cl.l.min_count)
    THEN [cl EXCEPT !.l.min_count = db[key], !.l.min_seqs = {key[3]}, !.l.scan = cl.l.scan \ {key}]
    ELSE [cl EXCEPT !.l.scan = cl.l.scan \ {key}]

\* one turn of the loop of __find_least_common_seqs, on the key SCAN hands out
scan_get(db, cl, key) ==
    LET cnt == db[key]
        seq == key[3]
    IN  IF cnt # 0 /\ (cl.l.min_count = 0 \/ cnt < cl.l.min_count)
        THEN [cl EXCEPT !.l.min_count = cnt, !.l.min_seqs = {seq}, !.l.scan = cl.l.scan \ {key}]
        ELSE IF cl.l.min_count # 0 /\ cnt = cl.l.min_count
        THEN [cl EXCEPT !.l.min_seqs = cl.l.min_seqs \cup {seq}, !.l.scan = cl.l.scan \ {key}]
        ELSE [cl EXCEPT !.l.scan = cl.l.scan \ {key}]

\* the scan is over: the tracker is replaced when a sequence was found
scanned(cl) ==
    IF cl.l.min_seqs # {} THEN Goto(cl, "least_rescan_replace")
    ELSE next_seq([cl EXCEPT !.l.min_count = 0])

\* __update_common_seqs for the sequence cl.l.seqs[cl.l.i], command by command:
\* the incr, __update_most_common_seqs, __update_least_common_seqs with
\* __find_least_common_seqs.  key: the key the scan reads next.
update_common_seqs_step(db, cl, key) ==
    LET three_move_sequence == cl.l.seqs[cl.l.i]
        new_count == cl.l.count
        most_count == GET(db, ANALYTICS_MOST_COMMON_SEQ_COUNT)
        least_count == GET(db, ANALYTICS_LEAST_COMMON_SEQ_COUNT)
        db1 == SREM(db, ANALYTICS_LEAST_COMMON_SEQS, three_move_sequence)
    IN  CASE cl.pc = "seq_incr" ->
                 Step(INCR(db, GLOBAL_SEQ_COUNT(three_move_sequence)),
                      [cl EXCEPT !.pc = "most_count_get",
                                 !.l.count = INCR_value(db, GLOBAL_SEQ_COUNT(three_move_sequence))])
          [] cl.pc = "most_count_get" ->
                 IF most_count = <<>> \/ new_count > most_count[1] THEN Step(db, Goto(cl, "most_replace"))
                 ELSE IF new_count = most_count[1] THEN Step(db, Goto(cl, "most_add"))
                 ELSE Step(db, Goto(cl, "least_count_get"))
          [] cl.pc = "most_replace" ->
                 Step(SET(SADD(DEL(db, ANALYTICS_MOST_COMMON_SEQS), ANALYTICS_MOST_COMMON_SEQS,
                               {three_move_sequence}),
                          ANALYTICS_MOST_COMMON_SEQ_COUNT, new_count),
                      Goto(cl, "least_count_get"))
          [] cl.pc = "most_add" ->
                 Step(SADD(db, ANALYTICS_MOST_COMMON_SEQS, {three_move_sequence}), Goto(cl, "least_count_get"))
          [] cl.pc = "least_count_get" ->
                 IF least_count = <<>> \/ new_count < least_count[1] THEN Step(db, Goto(cl, "least_replace"))
                 ELSE IF new_count = least_count[1] THEN Step(db, Goto(cl, "least_add"))
                 ELSE Step(db, Goto(cl, "least_sismember"))
          [] cl.pc = "least_replace" ->
                 Step(SET(SADD(DEL(db, ANALYTICS_LEAST_COMMON_SEQS), ANALYTICS_LEAST_COMMON_SEQS,
                               {three_move_sequence}),
                          ANALYTICS_LEAST_COMMON_SEQ_COUNT, new_count),
                      next_seq(cl))
          [] cl.pc = "least_add" ->
                 Step(SADD(db, ANALYTICS_LEAST_COMMON_SEQS, {three_move_sequence}), next_seq(cl))
          [] cl.pc = "least_sismember" ->
                 IF SISMEMBER(db, ANALYTICS_LEAST_COMMON_SEQS, three_move_sequence)
                 THEN Step(db, Goto(cl, "least_remove"))
                 ELSE Step(db, next_seq(cl))
          [] cl.pc = "least_remove" ->
                 IF SCARD(db1, ANALYTICS_LEAST_COMMON_SEQS) = 0
                 THEN Step(db1, Goto(cl, "least_scan"))
                 ELSE Step(db1, next_seq(cl))
          [] cl.pc = "least_scan" ->
                 IF SCAN_SEQ_COUNT(db) = {} THEN Step(db, scanned(cl))
                 ELSE Step(db, [cl EXCEPT !.pc = "least_scan_get", !.l.scan = SCAN_SEQ_COUNT(db)])
          [] cl.pc = "least_scan_get" ->
                 IF scan_get(db, cl, key).l.scan = {} THEN Step(db, scanned(scan_get(db, cl, key)))
                 ELSE Step(db, scan_get(db, cl, key))
          [] cl.pc = "least_rescan_replace" ->
                 Step(SET(SADD(DEL(db, ANALYTICS_LEAST_COMMON_SEQS), ANALYTICS_LEAST_COMMON_SEQS,
                               cl.l.min_seqs),
                          ANALYTICS_LEAST_COMMON_SEQ_COUNT, cl.l.min_count),
                      next_seq([cl EXCEPT !.l.min_count = 0, !.l.min_seqs = {}]))

\* the global opening counter, __update_shortest_game and
\* __update_most_freq_opening (lines 237-241), command by command
update_analytics_step(db, cl) ==
    LET game_record == cl.rec
        eco_key == GLOBAL_OPENING_COUNT(game_record.opening_eco)
        shortest == GET(db, ANALYTICS_SHORTEST_GAME_TURNS)
        most_used == GET(db, ANALYTICS_MOST_FREQ_OPENING_COUNT)
    IN  CASE cl.pc = "opening_count" ->
                 Step(INCR(db, eco_key), [cl EXCEPT !.pc = "shortest_get", !.l.count = INCR_value(db, eco_key)])
          [] cl.pc = "shortest_get" ->
                 IF shortest = <<>> \/ game_record.number_of_turns < shortest[1]
                 THEN Step(db, Goto(cl, "shortest_mset"))
                 ELSE Step(db, Goto(cl, "most_freq_get"))
          [] cl.pc = "shortest_mset" ->
                 Step(MSET(db, (ANALYTICS_SHORTEST_GAME :> game_record.game_id)
                               @@ (ANALYTICS_SHORTEST_GAME_TURNS :> game_record.number_of_turns)),
                      Goto(cl, "most_freq_get"))
          [] cl.pc = "most_freq_get" ->
                 IF most_used = <<>> \/ cl.l.count > most_used[1]
                 THEN Step(db, Goto(cl, "most_freq_mset"))
                 ELSE Step(db, [cl EXCEPT !.pc = "fid1_get", !.l.count = 0])
          [] cl.pc = "most_freq_mset" ->
                 Step(MSET(db, (ANALYTICS_MOST_FREQ_OPENING :> game_record.opening_eco)
                               @@ (ANALYTICS_MOST_FREQ_OPENING_COUNT :> cl.l.count)),
                      [cl EXCEPT !.pc = "fid1_get", !.l.count = 0])

\* __update_friend_groups, command by command.  fid: the id uuid4 hands out.
update_friend_groups_step(db, cl, fid) ==
    LET pid1 == cl.rec.white_player_id
        pid2 == cl.rec.black_player_id
        fid1 == cl.l.fid1
        fid2 == GET(db, PLAYER_FRIEND_GROUP(pid2))
        gid == IF fid1 # <<>> THEN fid1[1] ELSE cl.l.fid2[1]
        newcomer == IF fid1 # <<>> THEN pid2 ELSE pid1
        big == IF cl.l.size1 >= cl.l.size2 THEN fid1[1] ELSE cl.l.fid2[1]
        small == IF cl.l.size1 >= cl.l.size2 THEN cl.l.fid2[1] ELSE fid1[1]
        members == SMEMBERS(db, GLOBAL_FRIEND_GROUP(small))
    IN  CASE cl.pc = "fid1_get" ->
                 Step(db, [cl EXCEPT !.pc = "fid2_get", !.l.fid1 = GET(db, PLAYER_FRIEND_GROUP(pid1))])
          [] cl.pc = "fid2_get" ->
                 IF fid1 = <<>> /\ fid2 = <<>> THEN Step(db, [cl EXCEPT !.pc = "new_fid", !.l.fid2 = fid2])
                 ELSE IF fid1 = <<>> \/ fid2 = <<>> THEN Step(db, [cl EXCEPT !.pc = "group_join", !.l.fid2 = fid2])
                 ELSE IF fid1 = fid2 THEN Step(db, Returns(cl))
                 ELSE Step(db, [cl EXCEPT !.pc = "size1", !.l.fid2 = fid2])
          [] cl.pc = "new_fid" ->
                 Step(db, [cl EXCEPT !.pc = "group_create", !.l.gid = fid])
          [] cl.pc = "group_create" ->
                 Step(MSET(SADD(db, GLOBAL_FRIEND_GROUP(cl.l.gid), {pid1, pid2}),
                           (PLAYER_FRIEND_GROUP(pid1) :> cl.l.gid) @@ (PLAYER_FRIEND_GROUP(pid2) :> cl.l.gid)),
                      Returns(cl))
          [] cl.pc = "group_join" ->
                 Step(SET(SADD(db, GLOBAL_FRIEND_GROUP(gid), {newcomer}), PLAYER_FRIEND_GROUP(newcomer), gid),
                      Returns(cl))
          [] cl.pc = "size1" ->
                 Step(db, [cl EXCEPT !.pc = "size2", !.l.size1 = SCARD(db, GLOBAL_FRIEND_GROUP(fid1[1]))])
          [] cl.pc = "size2" ->
                 Step(db, [cl EXCEPT !.pc = "members", !.l.size2 = SCARD(db, GLOBAL_FRIEND_GROUP(cl.l.fid2[1]))])
          [] cl.pc = "members" ->
                 IF members = {} THEN Step(db, Returns(cl))
                 ELSE Step(db, [cl EXCEPT !.pc = "group_merge", !.l.members = members])
          [] cl.pc = "group_merge" ->
                 Step(DEL(MSET(SADD(db, GLOBAL_FRIEND_GROUP(big), cl.l.members),
                               [k \in {PLAYER_FRIEND_GROUP(m) : m \in cl.l.members} |-> big]),
                          GLOBAL_FRIEND_GROUP(small)),
                      Returns(cl))

\* the positions of a call, by the function the next command belongs to
TopListPcs == {"top_list_read", "top_list_insert"}

PlayerKeysPcs ==
    {"player_incr", "games_list", "games_set", "opponents", "opening_incr", "most_used_get", "most_used_mset"}

CommonSeqsPcs ==
    {"seq_incr", "most_count_get", "most_replace", "most_add", "least_count_get", "least_replace",
     "least_add", "least_sismember", "least_remove", "least_scan", "least_scan_get", "least_rescan_replace"}

AnalyticsPcs == {"opening_count", "shortest_get", "shortest_mset", "most_freq_get", "most_freq_mset"}

FriendGroupsPcs ==
    {"fid1_get", "fid2_get", "new_fid", "group_create", "group_join", "size1", "size2", "members", "group_merge"}

\* the next command of a client.  fid, key: what uuid4 and SCAN hand out if
\* the command asks for it.
client_step(db, cl, fid, key) ==
    CASE cl.pc = "assert_game_is_new" -> assert_game_is_new_step(db, cl)
      [] cl.event = "add_schedule" -> add_schedule_step(db, cl)
      [] cl.pc = "seq_games" -> seq_games_step(db, cl)
      [] cl.pc \in TopListPcs -> update_top_list_step(db, cl)
      [] cl.pc \in PlayerKeysPcs -> update_player_keys_step(db, cl)
      [] cl.pc \in {"game_keys", "game_moves"} -> update_game_keys_step(db, cl)
      [] cl.pc \in CommonSeqsPcs -> update_common_seqs_step(db, cl, key)
      [] cl.pc \in AnalyticsPcs -> update_analytics_step(db, cl)
      [] cl.pc \in FriendGroupsPcs -> update_friend_groups_step(db, cl, fid)

\* uuid4 does not hand out an id twice: an id another client holds is not drawn
fids_held(cls) == {cls[c].l.gid : c \in Clients}

\* no call is under way: every client that has called has its call behind it
AllDone(cls) == \A c \in Clients : cls[c].pc \in {"idle", "done"}

ClientCalls(c, event, rec) ==
    /\ clients[c].pc = "idle"
    /\ clients' = [clients EXCEPT ![c] = Called(event, rec)]
    /\ UNCHANGED <<redis, volatile, raised>>

ClientStep(c) ==
    /\ clients[c].pc \notin {"idle", "done"}
    /\ \E fid \in (IF clients[c].pc = "new_fid" THEN new_fid(redis) \ fids_held(clients) ELSE {NotDrawn}),
          key \in (IF clients[c].pc = "least_scan_get" THEN clients[c].l.scan ELSE {<<>>}) :
           LET out == client_step(redis, clients[c], fid, key)
           IN  /\ redis' = out.db
               /\ volatile' = (volatile \cup out.expire) \cap DOMAIN out.db
               /\ clients' = [clients EXCEPT ![c] = out.cl]
               /\ raised' = IF out.cl.pc = "done" THEN <<out.cl.event, out.cl.raised>> ELSE raised

----------------------------------------------------------------------------
Init ==
    /\ redis = <<>>
    /\ volatile = {}
    /\ raised = <<"none", NoError>>
    /\ clients = [c \in Clients |-> Idle]

----------------------------------------------------------------------------
(* Rows the write events are fed.  Game ids are handed out in the order of *)
(* GameIdTable: a row carries the next unused id or one already taken.     *)

GameIdTable ==
    <<"g01", "g02", "g03", "g04", "g05", "g06", "g07", "g08", "g09", "g10",
      "g11", "g12", "g13", "g14", "g15", "g16", "g17", "g18", "g19", "g20">>

Min(a, b) == IF a < b THEN a ELSE b

NumGameIds == SCARD(redis, GLOBAL_GAMES_IDS)

\* the next unused game id and those already taken, at most max ids in all
GameIdsUpTo(max) == {GameIdTable[i] : i \in 1..Min(NumGameIds + 1, max)}

List(moves) == [json |-> TRUE, moves |-> moves]
Malformed == [json |-> FALSE, moves |-> <<>>]

GameRow(white, black, winner, turns, eco, moveset) ==
    [white_player_id |-> white, black_player_id |-> black, winner |-> winner,
     victory_status |-> "mate", number_of_turns |-> turns, opening_eco |-> eco,
     moveset |-> moveset]

WithId(row, gid) ==
    [game_id |-> gid, white_player_id |-> row.white_player_id,
     black_player_id |-> row.black_player_id, winner |-> row.winner,
     victory_status |-> row.victory_status, number_of_turns |-> row.number_of_turns,
     opening_eco |-> row.opening_eco, moveset |-> row.moveset]

----------------------------------------------------------------------------
(* Spec: the three write events in any order over three players.           *)

MaxGames == 2

PlayerRows ==
    {[user_id |-> "p1", email |-> "a@x"], [user_id |-> "p1", email |-> "b@x"]}

ScheduleRows ==
    {[player_1 |-> "p1", player_2 |-> "p2"]}

GameRows ==
    {GameRow("p1", "p2", "white", 10, "C20", List(<<"e4", "e5", "Nf3">>)),
     GameRow("p2", "p3", "black", 7, "B01", List(<<"e4", "Qh5+">>)),
     GameRow("p3", "p1", "draw", 7, "B01", List(<<>>)),
     GameRow("p1", "p3", "black", 12, "B01", Malformed)}

Schedule ==
    \E row \in ScheduleRows, gid \in GameIdsUpTo(MaxGames) :
        AddSchedule([game_id |-> gid, player_1 |-> row.player_1, player_2 |-> row.player_2])

Player == \E row \in PlayerRows : AddPlayer(row)

Game == \E row \in GameRows, gid \in GameIdsUpTo(MaxGames) : AddGameRecord(WithId(row, gid))

Expiry == \E k \in volatile : KeyExpires(k)

Next == Player \/ Schedule \/ Game \/ Expiry

Spec == Init /\ [][Next]_vars

----------------------------------------------------------------------------
(* SpecTop: the leaderboards past their cap.  load_transform.py first      *)
(* bootstraps the database, players.csv and then game_records.csv, row by  *)
(* row; write events on twelve players follow.  A player is registered, if *)
(* at all, before its first game record.                                   *)

MaxTopGames == 4

TopMoves == List(<<"e4", "e5">>)

TopBootPlayers ==
    <<[user_id |-> "p01", email |-> "a@x"], [user_id |-> "p02", email |-> "b@x"],
      [user_id |-> "p03", email |-> "c@x"]>>

TopBootGames ==
    <<GameRow("p01", "p02", "white", 10, "C20", TopMoves),
      GameRow("p02", "p01", "black", 10, "C20", TopMoves),
      GameRow("p02", "p03", "white", 10, "C20", TopMoves),
      GameRow("p03", "p04", "white", 10, "C20", TopMoves),
      GameRow("p05", "p04", "black", 10, "C20", TopMoves),
      GameRow("p05", "p06", "white", 10, "C20", TopMoves),
      GameRow("p06", "p07", "white", 10, "C20", TopMoves),
      GameRow("p07", "p08", "white", 10, "C20", TopMoves),
      GameRow("p08", "p09", "white", 10, "C20", TopMoves),
      GameRow("p09", "p10", "white", 10, "C20", TopMoves)>>

TopRows ==
    {GameRow("p10", "p11", "white", 10, "C20", TopMoves),
     GameRow("p11", "p12", "white", 10, "C20", TopMoves),
     GameRow("p01", "p12", "black", 10, "C20", List(<<"e4", "e5", "Nf3">>)),
     GameRow("p09", "p10", "black", 10, "C20", TopMoves),
     GameRow("p03", "p04", "draw", 10, "C20", List(<<>>)),
     GameRow("p02", "p01", "white", 10, "C20", TopMoves)}

TopLatePlayers == {[user_id |-> "p12", email |-> "l@x"]}

NumPlayerIds == SCARD(redis, GLOBAL_PLAYERS_IDS)

TopLoadPlayer ==
    /\ NumGameIds = 0
    /\ NumPlayerIds < Len(TopBootPlayers)
    /\ AddPlayer(TopBootPlayers[NumPlayerIds + 1])

TopLoadGame ==
    /\ NumPlayerIds >= Len(TopBootPlayers)
    /\ NumGameIds < Len(TopBootGames)
    /\ AddGameRecord(WithId(TopBootGames[NumGameIds + 1], GameIdTable[NumGameIds + 1]))

TopLoaded == NumPlayerIds >= Len(TopBootPlayers) /\ NumGameIds >= Len(TopBootGames)

TopGame ==
    /\ TopLoaded
    /\ NumGameIds < Len(TopBootGames) + MaxTopGames
    /\ \E row \in TopRows : AddGameRecord(WithId(row, GameIdTable[NumGameIds + 1]))

TopPlayer ==
    /\ TopLoaded
    /\ \E row \in TopLatePlayers :
           /\ ~EXISTS(redis, PLAYER_GAMES_LIST(row.user_id))
           /\ AddPlayer(row)

NextTop == TopLoadPlayer \/ TopLoadGame \/ TopGame \/ TopPlayer

SpecTop == Init /\ [][NextTop]_vars

----------------------------------------------------------------------------
(* SpecSeq: game records of two players whose movesets share three-move    *)
(* sequences, so that the least-common set loses members and is rescanned. *)

MaxSeqGames == 3

SeqMovesets ==
    {List(<<"a", "b", "c">>),
     List(<<"a", "b", "c", "d">>),
     List(<<"b", "c", "d">>),
     List(<<"a", "b", "c", "a", "b", "c">>),
     List(<<"x", "y", "z">>),
     List(<<"a", "b">>),
     List(<<>>),
     Malformed}

SeqRows == {GameRow("p1", "p2", "white", 10, "C20", moveset) : moveset \in SeqMovesets}

SeqGame == \E row \in SeqRows, gid \in GameIdsUpTo(MaxSeqGames) : AddGameRecord(WithId(row, gid))

NextSeq == SeqGame

SpecSeq == Init /\ [][NextSeq]_vars

----------------------------------------------------------------------------
(* SpecLoad: game records of three players with different openings and     *)
(* numbers of turns; a player is registered, if at all, before its first   *)
(* game record.                                                            *)

MaxLoadGames == 3

LoadMoves == List(<<"e4", "e5">>)

LoadPlayers == {[user_id |-> "p1", email |-> "a@x"], [user_id |-> "p3", email |-> "c@x"]}

LoadRows ==
    {GameRow("p1", "p2", "white", 7, "A00", LoadMoves),
     GameRow("p1", "p2", "black", 5, "B01", LoadMoves),
     GameRow("p2", "p3", "white", 7, "B01", LoadMoves),
     GameRow("p3", "p1", "draw", 5, "A00", LoadMoves),
     GameRow("p1", "p3", "draw", 9, "C20", LoadMoves),
     GameRow("p2", "p1", "white", 3, "B01", List(<<>>))}

LoadPlayer ==
    \E row \in LoadPlayers :
        /\ ~EXISTS(redis, PLAYER_GAMES_LIST(row.user_id))
        /\ AddPlayer(row)

LoadGame == \E row \in LoadRows, gid \in GameIdsUpTo(MaxLoadGames) : AddGameRecord(WithId(row, gid))

NextLoad == LoadPlayer \/ LoadGame

SpecLoad == Init /\ [][NextLoad]_vars

----------------------------------------------------------------------------
(* SpecSched: one pairing scheduled again and again, until the lists of    *)
(* scheduled games are full and trimmed.  Ids are handed out in the order  *)
(* of SchedIdTable.                                                        *)

MaxSchedules == 201

Digits == <<"0", "1", "2", "3", "4", "5", "6", "7", "8", "9">>

\* "s001", "s002", ...
SchedIdTable ==
    [n \in 1..999 |-> "s" \o Digits[(n \div 100) + 1] \o Digits[((n \div 10) % 10) + 1] \o Digits[(n % 10) + 1]]

\* the place of a schedule id in the order the ids are handed out
SchedNo == [gid \in {SchedIdTable[n] : n \in 1..999} |-> CHOOSE n \in 1..999 : SchedIdTable[n] = gid]

\* a first pairing of p3 with p1, then p1 with p2 every time
SchedRows ==
    IF NumGameIds = 0
    THEN {[player_1 |-> "p1", player_2 |-> "p2"], [player_1 |-> "p3", player_2 |-> "p1"]}
    ELSE {[player_1 |-> "p1", player_2 |-> "p2"]}

\* the next unused id, or the oldest or the newest id in use
SchedIds ==
    (IF NumGameIds < MaxSchedules THEN {SchedIdTable[NumGameIds + 1]} ELSE {})
    \cup (IF NumGameIds > 0 THEN {SchedIdTable[1], SchedIdTable[NumGameIds]} ELSE {})

SchedSchedule ==
    \E row \in SchedRows, gid \in SchedIds :
        AddSchedule([game_id |-> gid, player_1 |-> row.player_1, player_2 |-> row.player_2])

NextSched == SchedSchedule

SpecSched == Init /\ [][NextSched]_vars

----------------------------------------------------------------------------
(* SpecFail: game records while the store may become unreachable in the    *)
(* middle of a call.                                                       *)

MaxFailGames == 2

FailRows ==
    {GameRow("p1", "p2", "white", 7, "A00", List(<<"e4", "e5", "Nf3">>)),
     GameRow("p2", "p3", "black", 5, "B01", List(<<"e4", "e5", "Nf3", "Nc6">>))}

FailGame == \E row \in FailRows, gid \in GameIdsUpTo(MaxFailGames) : AddGameRecord(WithId(row, gid))

FailStore ==
    \E row \in FailRows, gid \in GameIdsUpTo(MaxFailGames) : AddGameRecordStoreFails(WithId(row, gid))

NextFail == FailGame \/ FailStore

SpecFail == Init /\ [][NextFail]_vars

----------------------------------------------------------------------------
(* SpecPlay: game records over four players that play in a chain, with     *)
(* every kind of winner value.                                             *)

MaxPlayGames == 4

PlayMoves == List(<<"e4", "e5", "Nf3">>)

PlayRows ==
    {GameRow("p1", "p2", "white", 7, "A00", PlayMoves),
     GameRow("p2", "p3", "black", 5, "B01", PlayMoves),
     GameRow("p3", "p4", "draw", 7, "B01", PlayMoves),
     GameRow("p4", "p1", "aborted", 9, "A00", PlayMoves)}

PlayGame == \E row \in PlayRows, gid \in GameIdsUpTo(MaxPlayGames) : AddGameRecord(WithId(row, gid))

NextPlay == PlayGame

SpecPlay == Init /\ [][NextPlay]_vars

----------------------------------------------------------------------------
(* SpecRace: two clients, each with one call of add_game_record or         *)
(* add_schedule, their commands interleaved in every order; the two calls  *)
(* carry the same id or two different ids.                                 *)

MaxRaceIds == 2

RaceMoves == List(<<"e4", "e5">>)

RaceRows ==
    {GameRow("p1", "p2", "white", 7, "A00", RaceMoves),
     GameRow("p2", "p3", "draw", 5, "B01", RaceMoves)}

RaceSchedules == {[player_1 |-> "p1", player_2 |-> "p2"]}

RaceIds == {GameIdTable[i] : i \in 1..MaxRaceIds}

RaceGame == \E c \in Clients, row \in RaceRows, gid \in RaceIds : ClientCalls(c, "add_game_record", WithId(row, gid))

RaceSchedule ==
    \E c \in Clients, row \in RaceSchedules, gid \in RaceIds :
        ClientCalls(c, "add_schedule", [game_id |-> gid, player_1 |-> row.player_1, player_2 |-> row.player_2])

RaceStep == \E c \in Clients : ClientStep(c)

NextRace == RaceGame \/ RaceSchedule \/ RaceStep

SpecRace == Init /\ [][NextRace]_vars

----------------------------------------------------------------------------
(* SpecRaceTop: game records added one after the other, then two clients,  *)
(* each with one add_game_record, their commands interleaved in every      *)
(* order.  The two records have different ids, winners and losers.         *)

MaxRaceTopLoad == 1

RaceTopLoadRows == {GameRow("p1", "p2", "white", 7, "A00", RaceMoves)}

\* the rows a client sends
RaceTopRows(c) ==
    IF c = "c1" THEN {GameRow("p1", "p3", "white", 7, "A00", RaceMoves)}
    ELSE {GameRow("p4", "p5", "white", 5, "B01", RaceMoves), GameRow("p5", "p4", "black", 5, "B01", RaceMoves)}

\* the id of a client's record: one the loaded records do not have
RaceTopId(c) == IF c = "c1" THEN GameIdTable[MaxRaceTopLoad + 1] ELSE GameIdTable[MaxRaceTopLoad + 2]

RaceTopLoad ==
    /\ \A c \in Clients : clients[c].pc = "idle"
    /\ NumGameIds < MaxRaceTopLoad
    /\ \E row \in RaceTopLoadRows : AddGameRecord(WithId(row, GameIdTable[NumGameIds + 1]))

RaceTopGame ==
    \E c \in Clients : \E row \in RaceTopRows(c) : ClientCalls(c, "add_game_record", WithId(row, RaceTopId(c)))

NextRaceTop == RaceTopLoad \/ RaceTopGame \/ RaceStep

SpecRaceTop == Init /\ [][NextRaceTop]_vars

----------------------------------------------------------------------------
(* SpecRaceSeq: two clients, each with one add_game_record of a record     *)
(* with three-move sequences, their commands interleaved in every order.   *)

RaceSeqRows ==
    {GameRow("p1", "p2", "draw", 7, "A00", List(<<"a", "b", "c">>)),
     GameRow("p3", "p4", "draw", 5, "B01", List(<<"a", "b", "c", "d">>))}

\* the two clients send records with different ids
RaceSeqId(c) == IF c = "c1" THEN GameIdTable[1] ELSE GameIdTable[2]

RaceSeqGame ==
    \E c \in Clients, row \in RaceSeqRows : ClientCalls(c, "add_game_record", WithId(row, RaceSeqId(c)))

NextRaceSeq == RaceSeqGame \/ RaceStep

SpecRaceSeq == Init /\ [][NextRaceSeq]_vars

----------------------------------------------------------------------------
(* SpecSteps: game records with three-move sequences added one after the   *)
(* other, the last ones command by command: a client calls when no call is *)
(* under way.                                                              *)

MaxStepLoad == 1

StepRows ==
    {GameRow("p1", "p2", "draw", 7, "A00", List(<<"a", "b", "c", "d">>)),
     GameRow("p1", "p2", "draw", 7, "A00", List(<<"a", "b", "c">>)),
     GameRow("p1", "p2", "draw", 7, "A00", List(<<"x", "y", "z">>))}

StepLoad ==
    /\ \A c \in Clients : clients[c].pc = "idle"
    /\ NumGameIds < MaxStepLoad
    /\ \E row \in StepRows : AddGameRecord(WithId(row, GameIdTable[NumGameIds + 1]))

StepGame ==
    /\ AllDone(clients)
    /\ \E c \in Clients, row \in StepRows :
           ClientCalls(c, "add_game_record", WithId(row, GameIdTable[NumGameIds + 1]))

NextSteps == StepLoad \/ StepGame \/ RaceStep

SpecSteps == Init /\ [][NextSteps]_vars

----------------------------------------------------------------------------
(* SpecMerge: game records over five players, so that a friend group of    *)
(* three meets a friend group of two.                                      *)

MaxMergeGames == 4

MergeMoves == List(<<"e4", "e5">>)

MergeRows ==
    {GameRow("p1", "p2", "draw", 7, "A00", MergeMoves),
     GameRow("p2", "p3", "draw", 7, "A00", MergeMoves),
     GameRow("p4", "p5", "draw", 7, "A00", MergeMoves),
     GameRow("p5", "p1", "draw", 7, "A00", MergeMoves),
     GameRow("p3", "p4", "draw", 7, "A00", MergeMoves)}

MergeGame == \E row \in MergeRows, gid \in GameIdsUpTo(MaxMergeGames) : AddGameRecord(WithId(row, gid))

NextMerge == MergeGame

SpecMerge == Init /\ [][NextMerge]_vars

----------------------------------------------------------------------------
(* Properties.                                                             *)

NotUnique(event) == <<event, BoardGameClubNotUniqueError>>

\* the players that have a key in the database
PlayersOf(db) == {k[2] : k \in {x \in DOMAIN db : x[1] = "player"}}

\* a counter as a number: a missing key is 0
Counter(db, k) == IF EXISTS(db, k) THEN db[k] ELSE 0

\* C1: add_game_record with a game_id already in global:games:ids raises
\* BoardGameClubNotUniqueError and leaves every key as it was, whatever the
\* rest of the record says.
C1_DuplicateGameRecordRejected ==
    [][\A row \in GameRows \cup TopRows, gid \in SMEMBERS(redis, GLOBAL_GAMES_IDS) :
          AddGameRecord(WithId(row, gid))
          => /\ raised' = NotUnique("add_game_record")
             /\ redis' = redis
             /\ volatile' = volatile]_vars

\* a duplicate game record was rejected while the database holds a game record
C1_Witness ==
    /\ raised = NotUnique("add_game_record")
    /\ \E gid \in SMEMBERS(redis, GLOBAL_GAMES_IDS) : EXISTS(redis, GAME_WINNER(gid))
    /\ EXISTS(redis, ANALYTICS_TOP_WINS)

\* the order and the cap of one leaderboard
SortedNonIncreasing(top) == \A i, j \in 1..Len(top) : i < j => top[i][2] >= top[j][2]

TopCapacity == 10

\* C2: analytics:top_wins and analytics:top_losses are each sorted in
\* non-increasing order of score and hold at most 10 entries.
C2_TopListsSortedAndCapped ==
    \A list_key \in {ANALYTICS_TOP_WINS, ANALYTICS_TOP_LOSSES} :
        /\ SortedNonIncreasing(LRANGE(redis, list_key))
        /\ Len(LRANGE(redis, list_key)) <= TopCapacity

\* both leaderboards are full, hold two different scores, and a player with a
\* win has been trimmed off
C2_Witness ==
    /\ Len(LRANGE(redis, ANALYTICS_TOP_WINS)) = TopCapacity
    /\ Len(LRANGE(redis, ANALYTICS_TOP_LOSSES)) = TopCapacity
    /\ LRANGE(redis, ANALYTICS_TOP_WINS)[1][2] > LRANGE(redis, ANALYTICS_TOP_WINS)[TopCapacity][2]
    /\ \E p \in PlayersOf(redis) :
           /\ Counter(redis, PLAYER_WINS(p)) >= 1
           /\ \A i \in 1..TopCapacity : LRANGE(redis, ANALYTICS_TOP_WINS)[i][1] # p

\* one leaderboard holds the true top 10 of the counters count: pid |-> counter
TrueTop(top, count) ==
    IF Len(top) < TopCapacity
    THEN \A p \in DOMAIN count :
             count[p] >= 1 => \E i \in 1..Len(top) : top[i] = <<p, count[p]>>
    ELSE \A p \in DOMAIN count :
             (\A i \in 1..Len(top) : top[i][1] # p)
             => \A i \in 1..Len(top) : count[p] <= top[i][2]

\* C3: each leaderboard holds the true top 10: with fewer than 10 entries every
\* player with at least one win (loss) is listed with its current count; with
\* 10 entries no absent player has a counter above the lowest listed score.
C3_TopListsHoldTrueTop ==
    /\ TrueTop(LRANGE(redis, ANALYTICS_TOP_WINS),
               [p \in PlayersOf(redis) |-> Counter(redis, PLAYER_WINS(p))])
    /\ TrueTop(LRANGE(redis, ANALYTICS_TOP_LOSSES),
               [p \in PlayersOf(redis) |-> Counter(redis, PLAYER_LOSSES(p))])

\* a player that had been trimmed off the full win leaderboard is back on it
\* with two wins, and another player with a win is off it
C3_Witness ==
    /\ Len(LRANGE(redis, ANALYTICS_TOP_WINS)) = TopCapacity
    /\ LRANGE(redis, ANALYTICS_TOP_WINS)[1] = <<"p02", 2>>
    /\ \E p \in PlayersOf(redis) :
           /\ Counter(redis, PLAYER_WINS(p)) >= 1
           /\ \A i \in 1..TopCapacity : LRANGE(redis, ANALYTICS_TOP_WINS)[i][1] # p

\* C10: add_player with a user_id already in global:players:ids, and
\* add_schedule with a game_id already in global:games:ids, raise
\* BoardGameClubNotUniqueError and write nothing.
C10_DuplicatePlayerAndScheduleRejected ==
    [][/\ \A row \in PlayerRows :
              (SISMEMBER(redis, GLOBAL_PLAYERS_IDS, row.user_id) /\ AddPlayer(row))
              => /\ raised' = NotUnique("add_player")
                 /\ redis' = redis
                 /\ volatile' = volatile
       /\ \A row \in ScheduleRows, gid \in SMEMBERS(redis, GLOBAL_GAMES_IDS) :
              AddSchedule([game_id |-> gid, player_1 |-> row.player_1, player_2 |-> row.player_2])
              => /\ raised' = NotUnique("add_schedule")
                 /\ redis' = redis
                 /\ volatile' = volatile]_vars

\* add_player was rejected for a registered player that has won a game and has
\* a scheduled game
C10_Witness ==
    /\ raised = NotUnique("add_player")
    /\ SISMEMBER(redis, GLOBAL_PLAYERS_IDS, "p1")
    /\ Counter(redis, PLAYER_WINS("p1")) >= 1
    /\ EXISTS(redis, PLAYER_SCHEDULED_GAMES("p1"))

\* the sequences of the counters SCAN finds, and their counts
SeqsCounted(db) == {k[3] : k \in SCAN_SEQ_COUNT(db)}

SeqCounts(db) == {db[k] : k \in SCAN_SEQ_COUNT(db)}

\* C4: the least-common tracker is exact: analytics:least_common_seq:count is
\* the minimum of the positive global:seq:*:count counters and
\* analytics:least_common_seqs is exactly the set of sequences at that count.
C4_LeastCommonExact ==
    IF \A c \in SeqCounts(redis) : c = 0
    THEN /\ ~EXISTS(redis, ANALYTICS_LEAST_COMMON_SEQ_COUNT)
         /\ ~EXISTS(redis, ANALYTICS_LEAST_COMMON_SEQS)
    ELSE /\ EXISTS(redis, ANALYTICS_LEAST_COMMON_SEQ_COUNT)
         /\ redis[ANALYTICS_LEAST_COMMON_SEQ_COUNT] \in SeqCounts(redis) \ {0}
         /\ \A c \in SeqCounts(redis) \ {0} : redis[ANALYTICS_LEAST_COMMON_SEQ_COUNT] <= c
         /\ SMEMBERS(redis, ANALYTICS_LEAST_COMMON_SEQS)
                = {seq \in SeqsCounted(redis) :
                       redis[GLOBAL_SEQ_COUNT(seq)] = redis[ANALYTICS_LEAST_COMMON_SEQ_COUNT]}

\* the minimum has moved to 2 while a third sequence stands at 3: the last
\* member left the set and the counters were rescanned
C4_Witness ==
    /\ EXISTS(redis, ANALYTICS_LEAST_COMMON_SEQ_COUNT)
    /\ redis[ANALYTICS_LEAST_COMMON_SEQ_COUNT] = 2
    /\ Cardinality(SMEMBERS(redis, ANALYTICS_LEAST_COMMON_SEQS)) >= 2
    /\ \E c \in SeqCounts(redis) : c > 2

\* C5: the most-common tracker is exact: analytics:most_common_seq:count is the
\* maximum of the global:seq:*:count counters and analytics:most_common_seqs is
\* exactly the set of sequences at that count.
C5_MostCommonExact ==
    IF SeqCounts(redis) = {}
    THEN /\ ~EXISTS(redis, ANALYTICS_MOST_COMMON_SEQ_COUNT)
         /\ ~EXISTS(redis, ANALYTICS_MOST_COMMON_SEQS)
    ELSE /\ EXISTS(redis, ANALYTICS_MOST_COMMON_SEQ_COUNT)
         /\ redis[ANALYTICS_MOST_COMMON_SEQ_COUNT] \in SeqCounts(redis)
         /\ \A c \in SeqCounts(redis) : redis[ANALYTICS_MOST_COMMON_SEQ_COUNT] >= c
         /\ SMEMBERS(redis, ANALYTICS_MOST_COMMON_SEQS)
                = {seq \in SeqsCounted(redis) :
                       redis[GLOBAL_SEQ_COUNT(seq)] = redis[ANALYTICS_MOST_COMMON_SEQ_COUNT]}

\* two sequences are tied at a maximum of 2 and another sequence is below it
C5_Witness ==
    /\ EXISTS(redis, ANALYTICS_MOST_COMMON_SEQ_COUNT)
    /\ redis[ANALYTICS_MOST_COMMON_SEQ_COUNT] = 2
    /\ Cardinality(SMEMBERS(redis, ANALYTICS_MOST_COMMON_SEQS)) = 2
    /\ \E c \in SeqCounts(redis) : c < 2

\* the game records the database holds: their id was reserved, their moveset parsed
AcceptedGames(db) == {gid \in SMEMBERS(db, GLOBAL_GAMES_IDS) : EXISTS(db, GAME_WHITE_PLAYER(gid))}

\* the two players of each accepted game record
Played(db) == {{db[GAME_WHITE_PLAYER(gid)], db[GAME_BLACK_PLAYER(gid)]} : gid \in AcceptedGames(db)}

\* the players a chain of accepted game records connects to a player of S
RECURSIVE Connected(_, _)
Connected(db, S) ==
    LET T == S \cup {q \in UNION Played(db) : \E p \in S : {p, q} \in Played(db)}
    IN  IF T = S THEN S ELSE Connected(db, T)

SameFriendGroup(db, A, B) ==
    /\ EXISTS(db, PLAYER_FRIEND_GROUP(A))
    /\ EXISTS(db, PLAYER_FRIEND_GROUP(B))
    /\ db[PLAYER_FRIEND_GROUP(A)] = db[PLAYER_FRIEND_GROUP(B)]

\* C6: two players have the same friend-group id if and only if a chain of
\* accepted game records connects them (so the players sharing a group with a
\* player never get fewer).
C6_SameGroupIffConnected ==
    \A A, B \in PlayersOf(redis) :
        A # B => (SameFriendGroup(redis, A, B) <=> B \in Connected(redis, {A}))

\* the friend-group sets the database holds
FriendGroupIds(db) == {k[3] : k \in {x \in DOMAIN db : Len(x) = 3 /\ x[1] = "global" /\ x[2] = "friend_group"}}

\* C7: the friend-group sets partition exactly the players of the accepted game
\* records: each has a pointer, the pointer names a set that holds the player,
\* no player is in two sets, no set holds a player whose pointer names another.
C7_FriendGroupsPartitionPlayers ==
    /\ \A p \in UNION Played(redis) :
           /\ EXISTS(redis, PLAYER_FRIEND_GROUP(p))
           /\ p \in SMEMBERS(redis, GLOBAL_FRIEND_GROUP(redis[PLAYER_FRIEND_GROUP(p)]))
    /\ \A f, g \in FriendGroupIds(redis) :
           f # g => SMEMBERS(redis, GLOBAL_FRIEND_GROUP(f)) \cap SMEMBERS(redis, GLOBAL_FRIEND_GROUP(g)) = {}
    /\ \A f \in FriendGroupIds(redis) :
           \A p \in SMEMBERS(redis, GLOBAL_FRIEND_GROUP(f)) :
               /\ p \in UNION Played(redis)
               /\ EXISTS(redis, PLAYER_FRIEND_GROUP(p))
               /\ redis[PLAYER_FRIEND_GROUP(p)] = f

\* the opening counters of one scope: key |-> count
PlayerOpeningKeys(db, p) ==
    {k \in DOMAIN db : Len(k) = 5 /\ k[1] = "player" /\ k[2] = p /\ k[3] = "openings" /\ k[5] = "count"}

GlobalOpeningKeys(db) ==
    {k \in DOMAIN db : Len(k) = 4 /\ k[1] = "global" /\ k[2] = "openings" /\ k[4] = "count"}

\* a scope's leader is exact: the recorded count is the largest opening counter
\* of the scope and the recorded opening is one that stands at it
LeaderExact(db, count_keys, leader_key, leader_count_key) ==
    /\ \A k \in count_keys : db[k] <= Counter(db, leader_count_key)
    /\ count_keys # {} =>
           /\ EXISTS(db, leader_key)
           /\ \E k \in count_keys : k[Len(k) - 1] = db[leader_key] /\ db[k] = db[leader_count_key]
    /\ count_keys = {} => Counter(db, leader_count_key) = 0 /\ ~EXISTS(db, leader_key)

\* the recorded leader as a list: empty while there is none
Leader(db, leader_key) == IF EXISTS(db, leader_key) THEN <<db[leader_key]>> ELSE <<>>

\* C8: in each scope (each player, the global scope) the recorded
\* most-frequent-opening count is the largest opening counter of the scope, and
\* the leader changes only when the recorded count grows: an opening that ties
\* the recorded count never replaces the leader.
C8_MostFreqOpeningFirstToReach ==
    /\ [](/\ \A p \in PlayersOf(redis) :
                LeaderExact(redis, PlayerOpeningKeys(redis, p), PLAYER_MOST_FREQ_OPENING(p),
                            PLAYER_MOST_FREQ_OPENING_COUNT(p))
          /\ LeaderExact(redis, GlobalOpeningKeys(redis), ANALYTICS_MOST_FREQ_OPENING,
                         ANALYTICS_MOST_FREQ_OPENING_COUNT))
    /\ [][/\ \A p \in PlayersOf(redis') :
                Leader(redis', PLAYER_MOST_FREQ_OPENING(p)) # Leader(redis, PLAYER_MOST_FREQ_OPENING(p))
                => Counter(redis', PLAYER_MOST_FREQ_OPENING_COUNT(p))
                       > Counter(redis, PLAYER_MOST_FREQ_OPENING_COUNT(p))
          /\ Leader(redis', ANALYTICS_MOST_FREQ_OPENING) # Leader(redis, ANALYTICS_MOST_FREQ_OPENING)
             => Counter(redis', ANALYTICS_MOST_FREQ_OPENING_COUNT)
                    > Counter(redis, ANALYTICS_MOST_FREQ_OPENING_COUNT)]_vars

\* globally and for p1 a second opening has tied the count of the leader, which
\* stayed: the leader's counter and another opening's both stand at the count
C8_Witness ==
    /\ Cardinality({k \in GlobalOpeningKeys(redis) : redis[k] = Counter(redis, ANALYTICS_MOST_FREQ_OPENING_COUNT)}) >= 2
    /\ Cardinality({k \in PlayerOpeningKeys(redis, "p1") : redis[k] = Counter(redis, PLAYER_MOST_FREQ_OPENING_COUNT("p1"))}) >= 2
    /\ SISMEMBER(redis, GLOBAL_PLAYERS_IDS, "p1")

\* the accepted game records with the fewest turns
FewestTurns(db) ==
    {gid \in AcceptedGames(db) : \A other \in AcceptedGames(db) : db[GAME_TURNS(gid)] <= db[GAME_TURNS(other)]}

\* the first of them in the order the ids were handed out
FirstOf(gids) == CHOOSE gid \in gids : \A other \in gids : IndexOf(GameIdTable, gid) <= IndexOf(GameIdTable, other)

\* C9: analytics:shortest_game:number_of_turns is the fewest number_of_turns of
\* the accepted game records and analytics:shortest_game is the first accepted
\* record with that many turns.
C9_ShortestGameIsFirstMinimum ==
    AcceptedGames(redis) # {} =>
        /\ EXISTS(redis, ANALYTICS_SHORTEST_GAME)
        /\ EXISTS(redis, ANALYTICS_SHORTEST_GAME_TURNS)
        /\ redis[ANALYTICS_SHORTEST_GAME_TURNS] = redis[GAME_TURNS(FirstOf(FewestTurns(redis)))]
        /\ redis[ANALYTICS_SHORTEST_GAME] = FirstOf(FewestTurns(redis))

----------------------------------------------------------------------------
\* a player's three outcome counters: <<wins, losses, draws>>
Outcomes(db, p) ==
    <<Counter(db, PLAYER_WINS(p)), Counter(db, PLAYER_LOSSES(p)), Counter(db, PLAYER_DRAWS(p))>>

\* the entries of a leaderboard
Entries(db, list_key) == {LRANGE(db, list_key)[i] : i \in 1..Len(LRANGE(db, list_key))}

\* the outcome counters after one more win, loss or draw
OneMore(outcomes, which) == [i \in 1..3 |-> IF i = which THEN outcomes[i] + 1 ELSE outcomes[i]]

\* a leaderboard gained at most the entry of player p with its new score, and
\* holds it unless the list is full
FedOnly(list_key, p, score) ==
    /\ Entries(redis', list_key) \subseteq Entries(redis, list_key) \cup {<<p, score>>}
    /\ Len(LRANGE(redis', list_key)) < TopCapacity => <<p, score>> \in Entries(redis', list_key)

\* C11: every accepted game record steps exactly one outcome counter of each of
\* its two players by one: the winner's wins and the loser's losses when the
\* winner is white or black, both players' draws for any other winner value;
\* the win leaderboard is fed only with the winner, the loss leaderboard only
\* with the loser, and neither with a draw.
C11_OneOutcomeCounterPerPlayer ==
    [][\A gid \in AcceptedGames(redis') \ AcceptedGames(redis) :
          LET white == redis'[GAME_WHITE_PLAYER(gid)]
              black == redis'[GAME_BLACK_PLAYER(gid)]
              winner == redis'[GAME_WINNER(gid)]
          IN  IF winner = "white" THEN
                  /\ Outcomes(redis', white) = OneMore(Outcomes(redis, white), 1)
                  /\ Outcomes(redis', black) = OneMore(Outcomes(redis, black), 2)
                  /\ FedOnly(ANALYTICS_TOP_WINS, white, Counter(redis', PLAYER_WINS(white)))
                  /\ FedOnly(ANALYTICS_TOP_LOSSES, black, Counter(redis', PLAYER_LOSSES(black)))
              ELSE IF winner = "black" THEN
                  /\ Outcomes(redis', black) = OneMore(Outcomes(redis, black), 1)
                  /\ Outcomes(redis', white) = OneMore(Outcomes(redis, white), 2)
                  /\ FedOnly(ANALYTICS_TOP_WINS, black, Counter(redis', PLAYER_WINS(black)))
                  /\ FedOnly(ANALYTICS_TOP_LOSSES, white, Counter(redis', PLAYER_LOSSES(white)))
              ELSE
                  /\ Outcomes(redis', white) = OneMore(Outcomes(redis, white), 3)
                  /\ Outcomes(redis', black) = OneMore(Outcomes(redis, black), 3)
                  /\ LRANGE(redis', ANALYTICS_TOP_WINS) = LRANGE(redis, ANALYTICS_TOP_WINS)
                  /\ LRANGE(redis', ANALYTICS_TOP_LOSSES) = LRANGE(redis, ANALYTICS_TOP_LOSSES)]_vars

\* the last record accepted was neither won by white nor by black and its
\* players, who had won and lost before, now have a draw
C11_Witness ==
    /\ raised = <<"add_game_record", NoError>>
    /\ \E gid \in AcceptedGames(redis) :
           /\ redis[GAME_WINNER(gid)] = "aborted"
           /\ Outcomes(redis, redis[GAME_WHITE_PLAYER(gid)]) = <<0, 0, 1>>
           /\ Outcomes(redis, redis[GAME_BLACK_PLAYER(gid)]) = <<1, 0, 1>>
           /\ Entries(redis, ANALYTICS_TOP_WINS) = {<<"p1", 1>>}

\* the place of an entry in a leaderboard, 1 at the head
Place(db, list_key, entry) == IndexOf(LRANGE(db, list_key), entry)

\* in one step of a leaderboard, an entry that was listed stays ahead of every
\* entry of equal score that was behind it or is admitted by the step
EarlierStaysAhead(list_key) ==
    \A earlier \in Entries(redis, list_key) \cap Entries(redis', list_key) :
        \A later \in Entries(redis', list_key) :
            /\ later[2] = earlier[2]
            /\ \/ later \notin Entries(redis, list_key)
               \/ Place(redis, list_key, earlier) < Place(redis, list_key, later)
            => Place(redis', list_key, earlier) < Place(redis', list_key, later)

\* C12: among leaderboard entries of equal score, an entry admitted earlier
\* stays ahead of (closer to the head than) an entry admitted later.
C12_EarlierAdmittedStaysAhead ==
    [][EarlierStaysAhead(ANALYTICS_TOP_WINS) /\ EarlierStaysAhead(ANALYTICS_TOP_LOSSES)]_vars

\* C13: add_game_record with a moveset that does not parse into a list of
\* moves raises and leaves the database exactly as it was: the game_id is not
\* reserved, so that a corrected record with the same id is accepted later.
C13_MalformedRecordLeavesNoTrace ==
    [][\A row \in {r \in SeqRows : ~r.moveset.json} :
          \A gid \in GameIdsUpTo(MaxSeqGames) \ SMEMBERS(redis, GLOBAL_GAMES_IDS) :
              AddGameRecord(WithId(row, gid))
              => /\ raised' = <<"add_game_record", JSONDecodeError>>
                 /\ redis' = redis
                 /\ ~SISMEMBER(redis', GLOBAL_GAMES_IDS, gid)]_vars

\* C14: add_game_record is all-or-nothing when the store fails: a call that
\* ends with the store unreachable after the id reservation and before the
\* last write leaves none of its writes in the database.
C14_StoreFailureLeavesNoWrite ==
    [][\A row \in FailRows :
          \A gid \in GameIdsUpTo(MaxFailGames) \ SMEMBERS(redis, GLOBAL_GAMES_IDS) :
              AddGameRecordStoreFails(WithId(row, gid)) => redis' = redis]_vars

\* the moves stored for a game record
StoredMoves(db, gid) == LRANGE(db, GAME_MOVES(gid))

\* the places of a moveset where three contiguous moves are the sequence seq
WindowsAt(moves, seq) == {i \in 1..(Len(moves) - 2) : <<moves[i], moves[i + 1], moves[i + 2]>> = seq}

\* the windows equal to seq over the movesets of the game records gids
RECURSIVE TotalWindows(_, _, _)
TotalWindows(db, gids, seq) ==
    IF gids = {} THEN 0
    ELSE LET gid == CHOOSE g \in gids : TRUE
         IN  Cardinality(WindowsAt(StoredMoves(db, gid), seq)) + TotalWindows(db, gids \ {gid}, seq)

\* every three-move sequence the database knows: by a counter, by a set of
\* games or as a window of a stored moveset
KnownSeqs(db) ==
    {k[3] : k \in {x \in DOMAIN db : Len(x) = 4 /\ x[1] = "global" /\ x[2] = "seq"}}
    \cup UNION {{<<StoredMoves(db, gid)[i], StoredMoves(db, gid)[i + 1], StoredMoves(db, gid)[i + 2]>> :
                    i \in 1..(Len(StoredMoves(db, gid)) - 2)} : gid \in AcceptedGames(db)}

\* C15: for every three-move sequence s, global:seq:s:count is the number of
\* windows of three contiguous moves equal to s over the movesets of all
\* accepted game records, and global:seq:s:games is the set of the accepted
\* game records whose moveset contains s.
C15_SeqCountsAreWindowCounts ==
    \A seq \in KnownSeqs(redis) :
        /\ Counter(redis, GLOBAL_SEQ_COUNT(seq)) = TotalWindows(redis, AcceptedGames(redis), seq)
        /\ SMEMBERS(redis, GLOBAL_SEQ_GAMES(seq))
               = {gid \in AcceptedGames(redis) : WindowsAt(StoredMoves(redis, gid), seq) # {}}

\* a sequence was counted three times in two game records: twice in one
\* moveset, once in another, next to records of two and of no moves
C15_Witness ==
    /\ Counter(redis, GLOBAL_SEQ_COUNT(<<"a", "b", "c">>)) = 3
    /\ Cardinality(SMEMBERS(redis, GLOBAL_SEQ_GAMES(<<"a", "b", "c">>))) = 2
    /\ Counter(redis, GLOBAL_SEQ_COUNT(<<"b", "c", "a">>)) = 1
    /\ Cardinality(AcceptedGames(redis)) = 3

\* the accepted game records a player took part in, and those of a pair
GamesOf(db, p) ==
    {gid \in AcceptedGames(db) : p \in {db[GAME_WHITE_PLAYER(gid)], db[GAME_BLACK_PLAYER(gid)]}}

GamesBetween(db, A, B) ==
    {gid \in AcceptedGames(db) : {db[GAME_WHITE_PLAYER(gid)], db[GAME_BLACK_PLAYER(gid)]} = {A, B}}

\* C16: for two distinct players A and B the intersection of their games-sets
\* is exactly the set of the accepted game records A and B played against
\* each other.
C16_GamesSetsIntersectInCommonGames ==
    \A A, B \in PlayersOf(redis) :
        A # B => SMEMBERS(redis, PLAYER_GAMES_SET(A)) \cap SMEMBERS(redis, PLAYER_GAMES_SET(B))
                     = GamesBetween(redis, A, B)

\* p1 and p2 have two game records in common and each a record with p3
C16_Witness ==
    /\ Cardinality(GamesBetween(redis, "p1", "p2")) = 2
    /\ Cardinality(GamesBetween(redis, "p1", "p3")) = 1
    /\ Cardinality(SMEMBERS(redis, PLAYER_GAMES_SET("p1"))) = 3

\* a list of game ids in the order the ids were handed out, each id once
InOrderAccepted(l) ==
    \A i, j \in 1..Len(l) : i < j => IndexOf(GameIdTable, l[i]) < IndexOf(GameIdTable, l[j])

\* C17: a player's games-list holds exactly the accepted game records the
\* player was white or black in, oldest first, and a rejected duplicate adds
\* no id to it.
C17_GamesListInAcceptedOrder ==
    \A p \in PlayersOf(redis) :
        LET l == LRANGE(redis, PLAYER_GAMES_LIST(p))
        IN  /\ {l[i] : i \in 1..Len(l)} = GamesOf(redis, p)
            /\ InOrderAccepted(l)

\* a duplicate record was rejected for a player with two accepted records,
\* one of them without moves
C17_Witness ==
    /\ raised = NotUnique("add_game_record")
    /\ Len(LRANGE(redis, PLAYER_GAMES_LIST("p1"))) = 2
    /\ Len(LRANGE(redis, PLAYER_GAMES_LIST("p3"))) = 1
    /\ \E gid \in GamesOf(redis, "p1") : ~EXISTS(redis, GAME_MOVES(gid))

\* the games scheduled for a player: those it has an opponent pointer for
ScheduledFor(db, p) ==
    {k[4] : k \in {x \in DOMAIN db : Len(x) = 5 /\ x[1] = "player" /\ x[2] = p /\ x[3] = "scheduled_games"}}

ScheduledCapacity == 200

\* a player's scheduled_games list holds its most recently scheduled games,
\* newest first, and no more than the capacity
MostRecentScheduled(db, p) ==
    LET l == LRANGE(db, PLAYER_SCHEDULED_GAMES(p))
        listed == {l[i] : i \in 1..Len(l)}
        scheduled == ScheduledFor(db, p)
    IN  /\ Len(l) <= ScheduledCapacity
        /\ Len(l) = Min(Cardinality(scheduled), ScheduledCapacity)
        /\ listed \subseteq scheduled
        /\ \A i \in 1..(Len(l) - 1) : SchedNo[l[i]] > SchedNo[l[i + 1]]
        /\ \A gid \in scheduled \ listed : SchedNo[gid] < SchedNo[l[Len(l)]]

\* C18: when add_schedule accepts a new game_id for two players, each is the
\* other's scheduled opponent for it and the id is at the head of both
\* scheduled_games lists; each list holds at most 200 ids, the player's most
\* recently scheduled games, newest first.
C18_ScheduledGamesNewestFirstCapped ==
    /\ [](\A p \in PlayersOf(redis) : MostRecentScheduled(redis, p))
    /\ [][\A gid \in SMEMBERS(redis', GLOBAL_GAMES_IDS) \ SMEMBERS(redis, GLOBAL_GAMES_IDS) :
             \A row \in SchedRows :
                 AddSchedule([game_id |-> gid, player_1 |-> row.player_1, player_2 |-> row.player_2])
                 => /\ redis'[PLAYER_SCHEDULED_GAME_OPPONENT(row.player_1, gid)] = row.player_2
                    /\ redis'[PLAYER_SCHEDULED_GAME_OPPONENT(row.player_2, gid)] = row.player_1
                    /\ Head(LRANGE(redis', PLAYER_SCHEDULED_GAMES(row.player_1))) = gid
                    /\ Head(LRANGE(redis', PLAYER_SCHEDULED_GAMES(row.player_2))) = gid]_vars

\* p1 has been scheduled 201 times and its list was trimmed to the 200 newest;
\* p2, scheduled 200 times, has all of its games listed
C18_Witness ==
    /\ raised = <<"add_schedule", NoError>>
    /\ Cardinality(ScheduledFor(redis, "p1")) = 201
    /\ Len(LRANGE(redis, PLAYER_SCHEDULED_GAMES("p1"))) = 200
    /\ Cardinality(ScheduledFor(redis, "p2")) = 200
    /\ Len(LRANGE(redis, PLAYER_SCHEDULED_GAMES("p2"))) = 200

\* the players get_friends_of_friends is asked about
GraphPlayers == {"p1", "p2", "p3", "p4", "p5"}

OpponentsOfOpponents(db, p) == UNION {SMEMBERS(db, PLAYER_OPPONENTS(q)) : q \in SMEMBERS(db, PLAYER_OPPONENTS(p))}

\* C20: get_friends_of_friends(P0) returns exactly the opponents of P0's
\* opponents that are neither P0 nor direct opponents of P0; a player three
\* or more games away from P0 is not returned.
C20_FriendsOfFriendsAreTwoGamesAway ==
    \A P0 \in GraphPlayers :
        get_friends_of_friends(redis, P0)
            = (OpponentsOfOpponents(redis, P0) \ SMEMBERS(redis, PLAYER_OPPONENTS(P0))) \ {P0}

----------------------------------------------------------------------------
\* the clients that have called, and those whose call got past the reservation
Calling(cls) == {c \in Clients : cls[c].pc # "idle"}

Reserved(cls) ==
    {c \in Clients : cls[c].pc \notin {"idle", "assert_game_is_new"} /\ cls[c].raised # BoardGameClubNotUniqueError}

\* the database a call leaves when it runs alone on an empty database
Alone(cl) ==
    IF cl.event = "add_schedule" THEN {add_schedule(<<>>, cl.rec).db}
    ELSE {add_game_record(<<>>, cl.rec, fid).db : fid \in FIDS}

\* C21: the id reservation is atomic: of two clients that call add_game_record
\* or add_schedule with the same game_id, under every interleaving exactly one
\* passes the reservation and applies its writes; the other raises
\* BoardGameClubNotUniqueError and writes nothing.
C21_ReservationIsAtomic ==
    /\ [](\A c, d \in Calling(clients) :
             (c # d /\ clients[c].rec.game_id = clients[d].rec.game_id)
             => /\ ~(c \in Reserved(clients) /\ d \in Reserved(clients))
                /\ (clients[c].pc = "done" /\ clients[d].pc = "done")
                   => /\ (clients[c].raised = BoardGameClubNotUniqueError) # (clients[d].raised = BoardGameClubNotUniqueError)
                      /\ c \in Reserved(clients) => redis \in Alone(clients[c]))
    /\ [][\A c \in Clients :
             (/\ clients[c].pc = "assert_game_is_new"
              /\ SISMEMBER(redis, GLOBAL_GAMES_IDS, clients[c].rec.game_id)
              /\ ClientStep(c))
             => /\ redis' = redis
                /\ volatile' = volatile
                /\ clients'[c].pc = "done"
                /\ clients'[c].raised = BoardGameClubNotUniqueError]_vars

\* a client was rejected while the other, with the same game_id, is in the
\* middle of its add_game_record
C21_Witness ==
    /\ clients["c1"].pc = "done"
    /\ clients["c1"].raised = BoardGameClubNotUniqueError
    /\ clients["c1"].event = "add_game_record"
    /\ clients["c2"].pc = "opponents"
    /\ clients["c2"].rec.game_id = clients["c1"].rec.game_id
    /\ raised = NotUnique("add_game_record")

\* C22: __update_top_list takes effect as one atomic transaction: under any
\* interleaving of two clients' calls on the same list, once both have
\* completed the list is sorted in non-increasing order of score and holds
\* both new entries, as if the calls had run one after the other.
C22_TopListUpdateIsAtomic ==
    (AllDone(clients) /\ Calling(clients) = Clients)
    => \A list_key \in {ANALYTICS_TOP_WINS, ANALYTICS_TOP_LOSSES} :
           /\ SortedNonIncreasing(LRANGE(redis, list_key))
           /\ \A c \in Clients :
                  LET winner == IF clients[c].rec.winner = "white" THEN clients[c].rec.white_player_id
                                ELSE clients[c].rec.black_player_id
                      loser == IF clients[c].rec.winner = "white" THEN clients[c].rec.black_player_id
                               ELSE clients[c].rec.white_player_id
                  IN  /\ <<winner, Counter(redis, PLAYER_WINS(winner))>> \in Entries(redis, ANALYTICS_TOP_WINS)
                      /\ <<loser, Counter(redis, PLAYER_LOSSES(loser))>> \in Entries(redis, ANALYTICS_TOP_LOSSES)

\* the friend-group sets a player is a member of
GroupsOf(db, p) == {f \in FriendGroupIds(db) : SISMEMBER(db, GLOBAL_FRIEND_GROUP(f), p)}

\* C23: under any interleaving of two clients' __update_friend_groups calls
\* that share a player or a group, once both have completed every linked
\* player is a member of exactly one group set, the one its friend_group
\* pointer names, and all players the links connect share one group.
C23_ConcurrentLinksKeepPartition ==
    (AllDone(clients) /\ Calling(clients) = Clients)
    => /\ \A p \in UNION Played(redis) :
              /\ EXISTS(redis, PLAYER_FRIEND_GROUP(p))
              /\ GroupsOf(redis, p) = {redis[PLAYER_FRIEND_GROUP(p)]}
       /\ \A A \in UNION Played(redis) : \A B \in Connected(redis, {A}) : SameFriendGroup(redis, A, B)

\* C24: under any interleaving of two clients' add_game_record calls that
\* both observe three-move sequences, once both calls have completed the
\* least-common and the most-common tracker are exact: each set holds exactly
\* the sequences whose counter equals the recorded count, and the recorded
\* count is the true minimum / maximum.
C24_ConcurrentTrackersExact ==
    (AllDone(clients) /\ Calling(clients) = Clients)
    => (C4_LeastCommonExact /\ C5_MostCommonExact)

\* the positions of the fallback rescan of __update_least_common_seqs
RescanPcs == {"least_scan", "least_scan_get", "least_rescan_replace"}

\* the sequence a client's __update_common_seqs is at
SeqAt(cl) == cl.l.seqs[cl.l.i]

\* C25: when a sequence of the least-common set has been counted past the
\* recorded minimum while another member remains, __update_least_common_seqs
\* only removes that sequence: the recorded minimum and the other members stay
\* and the rescan is not run; for a sequence that is no member and stands
\* above the minimum it changes nothing.
C25_LeavingMemberOnlyRemoved ==
    [][\A c \in Clients :
          /\ (/\ clients[c].pc = "least_remove"
               /\ SMEMBERS(redis, ANALYTICS_LEAST_COMMON_SEQS) \ {SeqAt(clients[c])} # {}
               /\ ClientStep(c))
              => /\ redis' = SET(redis, ANALYTICS_LEAST_COMMON_SEQS,
                                 SMEMBERS(redis, ANALYTICS_LEAST_COMMON_SEQS) \ {SeqAt(clients[c])})
                 /\ clients'[c].pc \notin RescanPcs
          /\ (/\ clients[c].pc \in {"least_count_get", "least_sismember"}
               /\ EXISTS(redis, ANALYTICS_LEAST_COMMON_SEQ_COUNT)
               /\ clients[c].l.count > redis[ANALYTICS_LEAST_COMMON_SEQ_COUNT]
               /\ ClientStep(c))
              => /\ redis' = redis
                 /\ clients'[c].pc \in (IF SISMEMBER(redis, ANALYTICS_LEAST_COMMON_SEQS, SeqAt(clients[c]))
                                        THEN {"least_sismember", "least_remove"}
                                        ELSE {"least_sismember", "seq_incr", "opening_count"})]_vars

\* a,b,c has left the least-common set, in which b,c,d remains at the minimum
\* of 1, and a later record has counted a,b,c, no member now, once more
C25_Witness ==
    /\ AllDone(clients)
    /\ Counter(redis, GLOBAL_SEQ_COUNT(<<"a", "b", "c">>)) = 3
    /\ SMEMBERS(redis, ANALYTICS_LEAST_COMMON_SEQS) = {<<"b", "c", "d">>}
    /\ redis[ANALYTICS_LEAST_COMMON_SEQ_COUNT] = 1
    /\ Calling(clients) = Clients

\* C26: when removing a sequence empties the least-common set, the fallback
\* rescan runs and replaces the tracker with the true result over all sequence
\* counters: the recorded count is the minimum positive counter and the set is
\* exactly the sequences at that count, the sequence just counted among them
\* when it ties the new minimum; the rescan never ends with an empty set.
C26_RescanRestoresExactMinimum ==
    [][\A c \in Clients :
          ClientStep(c)
          => /\ (/\ clients[c].pc = "least_remove"
                  /\ SMEMBERS(redis, ANALYTICS_LEAST_COMMON_SEQS) \ {SeqAt(clients[c])} = {})
                 => clients'[c].pc \in RescanPcs
             /\ (clients[c].pc \in RescanPcs /\ clients'[c].pc \notin RescanPcs)
                 => /\ clients[c].pc = "least_rescan_replace"
                    /\ C4_LeastCommonExact'
                    /\ SMEMBERS(redis', ANALYTICS_LEAST_COMMON_SEQS) # {}
                    /\ (redis'[GLOBAL_SEQ_COUNT(SeqAt(clients[c]))] = redis'[ANALYTICS_LEAST_COMMON_SEQ_COUNT]
                        => SISMEMBER(redis', ANALYTICS_LEAST_COMMON_SEQS, SeqAt(clients[c])))]_vars

\* both sequences of a record have been counted a second time: the second one
\* emptied the least-common set, and the rescan has put both back at the new
\* minimum of 2
C26_Witness ==
    /\ AllDone(clients)
    /\ Counter(redis, ANALYTICS_LEAST_COMMON_SEQ_COUNT) = 2
    /\ SMEMBERS(redis, ANALYTICS_LEAST_COMMON_SEQS) = {<<"a", "b", "c">>, <<"b", "c", "d">>}
    /\ \E c \in Clients : clients[c].pc = "done" /\ clients[c].rec.moveset.moves = <<"a", "b", "c", "d">>

\* the players whose friend_group pointer names the group fid
PointedAt(db, fid) == {p \in PlayersOf(db) : EXISTS(db, PLAYER_FRIEND_GROUP(p)) /\ db[PLAYER_FRIEND_GROUP(p)] = fid}

\* the friend group of a player as a list: empty while it has none
GroupOf(db, p) == IF EXISTS(db, PLAYER_FRIEND_GROUP(p)) THEN <<db[PLAYER_FRIEND_GROUP(p)]>> ELSE <<>>

\* C27: when a game record links two players of different friend groups, the
\* group with fewer members is merged into the group with more members, the
\* first (white) player's group surviving on equal sizes: afterwards the
\* surviving set is the union of both, every migrated member's pointer names
\* the surviving group, the absorbed set no longer exists and no pointer
\* names the absorbed group.
C27_SmallerGroupMergedIntoLarger ==
    [][\A gid \in AcceptedGames(redis') \ AcceptedGames(redis) :
          LET g1 == GroupOf(redis, redis'[GAME_WHITE_PLAYER(gid)])
              g2 == GroupOf(redis, redis'[GAME_BLACK_PLAYER(gid)])
              first == SCARD(redis, GLOBAL_FRIEND_GROUP(g1[1])) >= SCARD(redis, GLOBAL_FRIEND_GROUP(g2[1]))
              big == IF first THEN g1[1] ELSE g2[1]
              small == IF first THEN g2[1] ELSE g1[1]
          IN  (g1 # <<>> /\ g2 # <<>> /\ g1 # g2)
              => /\ SMEMBERS(redis', GLOBAL_FRIEND_GROUP(big))
                        = SMEMBERS(redis, GLOBAL_FRIEND_GROUP(big)) \cup SMEMBERS(redis, GLOBAL_FRIEND_GROUP(small))
                 /\ \A p \in SMEMBERS(redis, GLOBAL_FRIEND_GROUP(small)) : GroupOf(redis', p) = <<big>>
                 /\ \A p \in SMEMBERS(redis, GLOBAL_FRIEND_GROUP(big)) : GroupOf(redis', p) = <<big>>
                 /\ ~EXISTS(redis', GLOBAL_FRIEND_GROUP(small))
                 /\ PointedAt(redis', small) = {}]_vars

\* a game record of p5 (white, in a group of two) and p1 (in a group of three)
\* has merged the two groups into one of five
C27_Witness ==
    /\ AcceptedGames(redis) = {"g01", "g02", "g03", "g04"}
    /\ GamesBetween(redis, "p5", "p1") = {"g04"}
    /\ GamesBetween(redis, "p3", "p4") = {}
    /\ Cardinality(FriendGroupIds(redis)) = 1
    /\ \A f \in FriendGroupIds(redis) : SMEMBERS(redis, GLOBAL_FRIEND_GROUP(f)) = {"p1", "p2", "p3", "p4", "p5"}

\* C28: when a game record links a player that has a friend group with a
\* player that has none, the latter is added to the existing group and pointed
\* at it; no new group is created and no other pointer or group set changes.
\* So linking a-b and then b-c gives one group of exactly {a, b, c} under the
\* id the first link created.
C28_NewcomerJoinsExistingGroup ==
    [][\A gid \in AcceptedGames(redis') \ AcceptedGames(redis) :
          LET white == redis'[GAME_WHITE_PLAYER(gid)]
              black == redis'[GAME_BLACK_PLAYER(gid)]
              g1 == GroupOf(redis, white)
              g2 == GroupOf(redis, black)
              fid == IF g1 # <<>> THEN g1[1] ELSE g2[1]
              newcomer == IF g1 # <<>> THEN black ELSE white
          IN  ((g1 = <<>>) # (g2 = <<>>))
              => /\ SMEMBERS(redis', GLOBAL_FRIEND_GROUP(fid)) = SMEMBERS(redis, GLOBAL_FRIEND_GROUP(fid)) \cup {newcomer}
                 /\ GroupOf(redis', newcomer) = <<fid>>
                 /\ FriendGroupIds(redis') = FriendGroupIds(redis)
                 /\ \A f \in FriendGroupIds(redis) \ {fid} :
                        SMEMBERS(redis', GLOBAL_FRIEND_GROUP(f)) = SMEMBERS(redis, GLOBAL_FRIEND_GROUP(f))
                 /\ \A p \in (PlayersOf(redis) \cup PlayersOf(redis')) \ {newcomer} :
                        GroupOf(redis', p) = GroupOf(redis, p)]_vars

\* p1-p2 and then p2-p3 have been linked: one group of exactly the three,
\* while p4 and p5 are in a group of their own
C28_Witness ==
    /\ GamesBetween(redis, "p1", "p2") = {"g01"}
    /\ GamesBetween(redis, "p2", "p3") = {"g02"}
    /\ GamesBetween(redis, "p4", "p5") = {"g03"}
    /\ AcceptedGames(redis) = {"g01", "g02", "g03"}
    /\ Cardinality(FriendGroupIds(redis)) = 2
    /\ SMEMBERS(redis, GLOBAL_FRIEND_GROUP(redis[PLAYER_FRIEND_GROUP("p1")])) = {"p1", "p2", "p3"}

\* C29: once a friend-group id has been created its member set exists, with
\* at least one member, in every later state: no add_game_record deletes a
\* group.
C29_FriendGroupNeverDeleted ==
    [][\A f \in FriendGroupIds(redis) :
          /\ f \in FriendGroupIds(redis')
          /\ SMEMBERS(redis', GLOBAL_FRIEND_GROUP(f)) # {}]_vars

\* the accepted game records a player has won, and those it has lost
GamesWon(db, p) ==
    {gid \in AcceptedGames(db) :
        \/ db[GAME_WINNER(gid)] = "white" /\ db[GAME_WHITE_PLAYER(gid)] = p
        \/ db[GAME_WINNER(gid)] = "black" /\ db[GAME_BLACK_PLAYER(gid)] = p}

GamesLost(db, p) ==
    {gid \in AcceptedGames(db) :
        \/ db[GAME_WINNER(gid)] = "white" /\ db[GAME_BLACK_PLAYER(gid)] = p
        \/ db[GAME_WINNER(gid)] = "black" /\ db[GAME_WHITE_PLAYER(gid)] = p}

\* the places of a player in a leaderboard
PlacesOf(db, list_key, p) == {i \in 1..Len(LRANGE(db, list_key)) : LRANGE(db, list_key)[i][1] = p}

\* C30: for any sequence of add_player and add_game_record calls, add_player
\* for a user_id of accepted game records included, each player is at most
\* once in analytics:top_wins and in analytics:top_losses, the score of its
\* entry is its current number_of_wins / number_of_losses counter, and the
\* counter is the number of accepted game records the player won / lost.
C30_LeaderboardsMatchCounters ==
    \A p \in PlayersOf(redis) :
        /\ Counter(redis, PLAYER_WINS(p)) = Cardinality(GamesWon(redis, p))
        /\ Counter(redis, PLAYER_LOSSES(p)) = Cardinality(GamesLost(redis, p))
        /\ Cardinality(PlacesOf(redis, ANALYTICS_TOP_WINS, p)) <= 1
        /\ Cardinality(PlacesOf(redis, ANALYTICS_TOP_LOSSES, p)) <= 1
        /\ \A i \in PlacesOf(redis, ANALYTICS_TOP_WINS, p) :
               LRANGE(redis, ANALYTICS_TOP_WINS)[i][2] = Counter(redis, PLAYER_WINS(p))
        /\ \A i \in PlacesOf(redis, ANALYTICS_TOP_LOSSES, p) :
               LRANGE(redis, ANALYTICS_TOP_LOSSES)[i][2] = Counter(redis, PLAYER_LOSSES(p))

----------------------------------------------------------------------------
\* C31: every game record whose id the reservation accepts has all of its
\* aggregate updates applied, a record of zero moves included: the call
\* returns, the game's attributes are stored, the global opening counter has
\* counted the record, the shortest-game tracker has considered it and its two
\* players are in the same friend group.
C31_AcceptedRecordFullyApplied ==
    [][\A row \in LoadRows, gid \in GameIdsUpTo(MaxLoadGames) \ SMEMBERS(redis, GLOBAL_GAMES_IDS) :
          AddGameRecord(WithId(row, gid))
          => /\ raised' = <<"add_game_record", NoError>>
             /\ EXISTS(redis', GAME_WINNER(gid))
             /\ EXISTS(redis', GAME_WHITE_PLAYER(gid))
             /\ Counter(redis', GLOBAL_OPENING_COUNT(row.opening_eco))
                    = Counter(redis, GLOBAL_OPENING_COUNT(row.opening_eco)) + 1
             /\ EXISTS(redis', ANALYTICS_SHORTEST_GAME_TURNS)
             /\ redis'[ANALYTICS_SHORTEST_GAME_TURNS] <= row.number_of_turns
             /\ SameFriendGroup(redis', row.white_player_id, row.black_player_id)]_vars

----------------------------------------------------------------------------
\* the ids the scheduled_games lists hold
ScheduledIds(db) ==
    UNION {{LRANGE(db, PLAYER_SCHEDULED_GAMES(p))[i] : i \in 1..Len(LRANGE(db, PLAYER_SCHEDULED_GAMES(p)))} :
              p \in PlayersOf(db)}

\* C32: scheduled pairings and game records share one set of ids.
\* add_game_record with the id of a scheduled pairing raises
\* BoardGameClubNotUniqueError and records nothing for that game; add_schedule
\* with the id of an accepted game record is rejected in the same way; no id is
\* ever both a scheduled pairing and a game record.
C32_SchedulesAndRecordsShareIds ==
    /\ [](ScheduledIds(redis) \cap AcceptedGames(redis) = {})
    /\ [][/\ \A row \in GameRows, gid \in ScheduledIds(redis) :
              AddGameRecord(WithId(row, gid))
              => /\ raised' = NotUnique("add_game_record")
                 /\ redis' = redis
                 /\ volatile' = volatile
                 /\ ~EXISTS(redis', GAME_WINNER(gid))
                 /\ \A p \in PlayersOf(redis') : ~SISMEMBER(redis', PLAYER_GAMES_SET(p), gid)
          /\ \A row \in ScheduleRows, gid \in AcceptedGames(redis) :
              AddSchedule([game_id |-> gid, player_1 |-> row.player_1, player_2 |-> row.player_2])
              => /\ raised' = NotUnique("add_schedule")
                 /\ redis' = redis
                 /\ volatile' = volatile
                 /\ gid \notin ScheduledIds(redis')]_vars

\* add_game_record was rejected while every id of global:games:ids is the id
\* of a scheduled pairing
C32_Witness ==
    /\ raised = NotUnique("add_game_record")
    /\ ScheduledIds(redis) # {}
    /\ SMEMBERS(redis, GLOBAL_GAMES_IDS) = ScheduledIds(redis)

----------------------------------------------------------------------------
\* C33: the opponents relation is symmetric and is the relation of the accepted
\* game records: B is in player:A:opponents if and only if A is in
\* player:B:opponents, if and only if an accepted game record has A and B as
\* its two players.
C33_OpponentsSymmetricAndPlayed ==
    \A A, B \in PlayersOf(redis) :
        A # B =>
            /\ SISMEMBER(redis, PLAYER_OPPONENTS(A), B) <=> SISMEMBER(redis, PLAYER_OPPONENTS(B), A)
            /\ SISMEMBER(redis, PLAYER_OPPONENTS(A), B) <=> {A, B} \in Played(redis)

\* p2 has played p1 and p3, which have not played each other
C33_Witness ==
    /\ SMEMBERS(redis, PLAYER_OPPONENTS("p2")) = {"p1", "p3"}
    /\ SMEMBERS(redis, PLAYER_OPPONENTS("p1")) = {"p2"}
    /\ SMEMBERS(redis, PLAYER_OPPONENTS("p3")) = {"p2"}
    /\ Cardinality(AcceptedGames(redis)) = 2

====
